---- MODULE Spec2Model ----
(***************************************************************************)
(* Page-turn interaction engine of the flipbook frontend:                  *)
(*   - FlipbookStateMachine  (interaction/stateMachine.ts)                 *)
(*   - PagePhysics           (interaction/physics.ts)                      *)
(*   - FlipbookController    (interaction/controller.ts)                   *)
(*   - PageMesh              (renderer/createPageMesh.ts, sheet variant)   *)
(*                                                                         *)
(* Numbers.  Progress, position and target are fixed-point with Unit = 1.0 *)
(* (so 0.5 is Half and the rest threshold 0.001 is Unit/1000); velocity is *)
(* in Unit per second; frame times are in milliseconds; pointer            *)
(* coordinates are whole pixels; hit coordinates u,v are in percent.       *)
(* Products are divided with Quot, which rounds toward zero.               *)
(*                                                                         *)
(* Specifications.                                                         *)
(*   Spec        the controller as the page wires it: pointer, keyboard,   *)
(*               frame and render-loop events, and the host's setters      *)
(*               called between gestures.                                  *)
(*   FairSpec    Spec with the browser's guarantee that a requested        *)
(*               animation frame is eventually delivered.                  *)
(*   SpecSM      the state machine alone, its public methods called in any *)
(*               order (as a unit test can).                               *)
(*   SpecPhysics the physics object alone, its public methods called in    *)
(*               any order with any argument.                              *)
(*   SpecSettle  the physics object released and stepped until it rests.   *)
(*   SpecCache   one TextureCache, its methods called directly.            *)
(*   SpecBook    the controller wired to the texture pipeline of main.ts;  *)
(*               FairBook adds the delivery of requested frames,          *)
(*               SpecBookUpload the upload of a further document.          *)
(*   SpecDeform  the sheet deformation functions of dflipDeform.ts.        *)
(*   SpecCallback  Spec with a page-changed callback that starts the next  *)
(*               turn before it returns.                                   *)
(*   SpecLayout  the controller with the page's layout handler (single and *)
(*               double layout) and hits on visible sheets only.           *)
(*   SpecLimiter the backend's rasterize limiter (services/limits.ts) with *)
(*               the requests of the /rasterize route.                     *)
(***************************************************************************)
EXTENDS Integers, Sequences, FiniteSets, TLC

VARIABLES
  sm,        \* FlipbookStateMachine: state, dragData, currentPage, totalPages, pageStep
  physics,   \* PagePhysics: position, velocity, target (state) and springK, damping (config)
  sheets,    \* the two PageMesh objects leftPage / rightPage: side, progress, isAnimating
  ctl,       \* FlipbookController's own fields
  call,      \* the last public call (SpecSM, SpecPhysics, SpecCache): operation, argument, returned value
  cache,     \* a TextureCache: limit, items in insertion order, and the clock Date.now() reads
  pipe,      \* the page's texture pipeline (main.ts): request ids, promise map, page cache, faces
  limiter    \* the backend's rasterize limiter (services/limits.ts) and the requests of the route

vars == <<sm, physics, sheets, ctl, call, cache, pipe, limiter>>

----------------------------------------------------------------------------
(* Fixed point and small helpers *)

Unit == 100 * 1000
Half == Unit \div 2
Null == "null"        \* a null object reference or direction
NoDrag == << >>       \* dragData = null; a recorded drag is the one-element <<data>>
None == "-"

Min(a, b) == IF a < b THEN a ELSE b
Max(a, b) == IF a > b THEN a ELSE b
Abs(a) == IF a < 0 THEN -a ELSE a
\* division rounding toward zero, as the nearest whole fixed-point value below
\* the exact quotient in magnitude
Quot(a, b) == IF a >= 0 THEN a \div b ELSE -((-a) \div b)

----------------------------------------------------------------------------
(* Bounds of the model *)

MaxPages == 3          \* largest totalPages / page index the host sets
MaxMoves == 2          \* pointer-move samples processed per drag
MaxUpdates == 1        \* render-loop updates processed per drag
MaxSteps == 2          \* step calls on the physics object after a setPosition or reset

----------------------------------------------------------------------------
(* FlipbookStateMachine *)

IDLE == "IDLE"
HOVER_CORNER_RIGHT == "HOVER_CORNER_RIGHT"
HOVER_CORNER_LEFT == "HOVER_CORNER_LEFT"
DRAGGING_FORWARD == "DRAGGING_FORWARD"
DRAGGING_BACKWARD == "DRAGGING_BACKWARD"
ANIMATING_FORWARD == "ANIMATING_FORWARD"
ANIMATING_BACKWARD == "ANIMATING_BACKWARD"
SETTLING == "SETTLING"

FlipbookState ==
  {IDLE, HOVER_CORNER_RIGHT, HOVER_CORNER_LEFT, DRAGGING_FORWARD,
   DRAGGING_BACKWARD, ANIMATING_FORWARD, ANIMATING_BACKWARD, SETTLING}

HoverStates == {HOVER_CORNER_RIGHT, HOVER_CORNER_LEFT}
DraggingStates == {DRAGGING_FORWARD, DRAGGING_BACKWARD}
AnimatingStates == {ANIMATING_FORWARD, ANIMATING_BACKWARD}
BusyStates == DraggingStates \cup AnimatingStates \cup {SETTLING}

NewStateMachine(total) ==
  [state |-> IDLE, dragData |-> NoDrag, currentPage |-> 0,
   totalPages |-> total, pageStep |-> 1]

SetCurrentPage(m, page) ==
  [m EXCEPT !.currentPage = Max(0, Min(page, m.totalPages - 1))]

SetTotalPages(m, total) == [m EXCEPT !.totalPages = total]

SetPageStep(m, step) == [m EXCEPT !.pageStep = Max(1, step)]

CanTurnForward(m) == m.currentPage + m.pageStep < m.totalPages

CanTurnBackward(m) == m.currentPage - m.pageStep >= 0

\* hoverCorner without the turnable test: a fault C9 has to notice
HoverCornerAnyPage(m, side) ==
  IF m.state # IDLE THEN m
  ELSE IF side = "right" THEN [m EXCEPT !.state = HOVER_CORNER_RIGHT]
  ELSE [m EXCEPT !.state = HOVER_CORNER_LEFT]

HoverCorner(m, side) ==
  IF m.state # IDLE THEN m
  ELSE IF side = "right" /\ CanTurnForward(m)
    THEN [m EXCEPT !.state = HOVER_CORNER_RIGHT]
  ELSE IF side = "left" /\ CanTurnBackward(m)
    THEN [m EXCEPT !.state = HOVER_CORNER_LEFT]
  ELSE m

LeaveCorner(m) ==
  IF m.state \in HoverStates THEN [m EXCEPT !.state = IDLE] ELSE m

\* startDrag's answer with the backward test missing: a fault C3 has to notice
StartDragResultForwardOnly(m, side) ==
  ~(side = "right" /\ ~CanTurnForward(m))

\* the value startDrag returns
StartDragResult(m, side) ==
  ~ \/ (side = "right" /\ ~CanTurnForward(m))
    \/ (side = "left" /\ ~CanTurnBackward(m))

StartDrag(m, x, y, side) ==
  IF ~StartDragResult(m, side) THEN m
  ELSE [m EXCEPT
          !.dragData = <<[startX |-> x, startY |-> y, currentX |-> x,
                          currentY |-> y, progress |-> 0]>>,
          !.state = IF side = "right" THEN DRAGGING_FORWARD
                    ELSE DRAGGING_BACKWARD]

UpdateDrag(m, x, y, progress) ==
  IF m.state \notin DraggingStates THEN m
  ELSE IF m.dragData = NoDrag THEN m
  ELSE [m EXCEPT !.dragData[1].currentX = x, !.dragData[1].currentY = y,
                 !.dragData[1].progress = Max(0, Min(Unit, progress))]

EndDragDirection(m) ==
  IF m.state = DRAGGING_FORWARD THEN "forward" ELSE "backward"

EndDragProgress(m) == IF m.dragData = NoDrag THEN 0 ELSE m.dragData[1].progress

\* shouldComplete with the tie at one half counted as complete: a fault C8
\* has to notice
ShouldCompleteAtHalf(progress) == progress >= Half

\* the shouldComplete field of the value endDrag returns
ShouldComplete(progress) == progress > Half

EndDrag(m) ==
  IF ShouldComplete(EndDragProgress(m))
  THEN [m EXCEPT !.state = IF EndDragDirection(m) = "forward"
                           THEN ANIMATING_FORWARD ELSE ANIMATING_BACKWARD]
  ELSE [m EXCEPT !.state = SETTLING]

\* completeAnimation moving one page whatever the page step: a fault C1 has
\* to notice
CompleteAnimationOnePage(m, direction) ==
  [m EXCEPT
     !.currentPage = IF direction = "forward"
                     THEN Min(m.currentPage + 1, m.totalPages - 1)
                     ELSE Max(m.currentPage - 1, 0),
     !.dragData = NoDrag,
     !.state = IDLE]

CompleteAnimation(m, direction) ==
  [m EXCEPT
     !.currentPage = IF direction = "forward"
                     THEN Min(m.currentPage + m.pageStep, m.totalPages - 1)
                     ELSE Max(m.currentPage - m.pageStep, 0),
     !.dragData = NoDrag,
     !.state = IDLE]

\* completeSettling that turns the page as completeAnimation does: a fault C2
\* has to notice
CompleteSettlingTurnsPage(m) ==
  [m EXCEPT !.currentPage = Min(m.currentPage + m.pageStep, m.totalPages - 1),
            !.dragData = NoDrag, !.state = IDLE]

CompleteSettling(m) == [m EXCEPT !.dragData = NoDrag, !.state = IDLE]

\* the value turnPage returns
TurnPageResult(m, direction) ==
  /\ m.state = IDLE
  /\ ~(direction = "forward" /\ ~CanTurnForward(m))
  /\ ~(direction = "backward" /\ ~CanTurnBackward(m))

TurnPage(m, direction) ==
  IF ~TurnPageResult(m, direction) THEN m
  ELSE [m EXCEPT
          !.dragData = <<[startX |-> 0, startY |-> 0, currentX |-> 0,
                          currentY |-> 0, progress |-> 0]>>,
          !.state = IF direction = "forward" THEN ANIMATING_FORWARD
                    ELSE ANIMATING_BACKWARD]

----------------------------------------------------------------------------
(* PagePhysics *)

DefaultSpringK == 120
DefaultDamping == 14
Mass == 1
RestThreshold == Unit \div 1000
MaxStepMs == 33                 \* Math.min(deltaTime, 0.033)
ControllerSpringK == 80
ControllerDamping == 12

NewPhysics(k, c) ==
  [position |-> 0, velocity |-> 0, target |-> 0, springK |-> k, damping |-> c]

Clamp01(p) == Max(0, Min(Unit, p))

SetPosition(ph, position) ==
  [ph EXCEPT !.position = Clamp01(position), !.velocity = 0]

SetTarget(ph, target) == [ph EXCEPT !.target = target]

\* release jumping to the target instead of leaving the position to step
ReleaseJumpsToTarget(ph, target, initialVelocity) ==
  [ph EXCEPT !.target = target, !.velocity = initialVelocity,
             !.position = target]

Release(ph, target, initialVelocity) ==
  [ph EXCEPT !.target = target, !.velocity = initialVelocity]

IsAtRest(ph) ==
  /\ Abs(ph.position - ph.target) < RestThreshold
  /\ Abs(ph.velocity) < RestThreshold

\* dt = Math.min(deltaTime, 0.033)
\* the step taken with the frame time as it comes
StepDtUncapped(deltaTime) == deltaTime

StepDt(deltaTime) == Min(deltaTime, MaxStepMs)

\* the update of step with the spring pushing away from the target: a fault
\* C11 has to notice
IntegrateRepelling(ph, deltaTime) ==
  LET dt == StepDt(deltaTime)
      displacement == ph.position - ph.target
      springForce == ph.springK * displacement
      dampingForce == -(ph.damping * ph.velocity)
      acceleration == Quot(springForce + dampingForce, Mass)
      velocity == ph.velocity + Quot(acceleration * dt, 1000)
      position == ph.position + Quot(velocity * dt, 1000)
  IN  [position |-> position, velocity |-> velocity]

\* the semi-implicit Euler update of step, before the boundary handling
Integrate(ph, deltaTime) ==
  LET dt == StepDt(deltaTime)
      displacement == ph.position - ph.target
      springForce == -(ph.springK * displacement)
      dampingForce == -(ph.damping * ph.velocity)
      acceleration == Quot(springForce + dampingForce, Mass)
      velocity == ph.velocity + Quot(acceleration * dt, 1000)
      position == ph.position + Quot(velocity * dt, 1000)
  IN  [position |-> position, velocity |-> velocity]

StopsAtZero(position, velocity) == position <= 0 /\ velocity < 0

StopsAtOne(position, velocity) == position >= Unit /\ velocity > 0

Step(ph, deltaTime) ==
  LET i == Integrate(ph, deltaTime)
      atZero == StopsAtZero(i.position, i.velocity)
      atOne == ~atZero /\ StopsAtOne(i.position, i.velocity)
      position == IF atZero THEN 0 ELSE IF atOne THEN Unit ELSE i.position
      velocity == IF atZero \/ atOne THEN 0 ELSE i.velocity
  IN  [ph EXCEPT !.position = Clamp01(position), !.velocity = velocity]

Reset(ph) == [ph EXCEPT !.position = 0, !.velocity = 0, !.target = 0]

----------------------------------------------------------------------------
(* PageMesh: the fields the controller reads and writes *)

NewSheet(side) == [side |-> side, progress |-> 0, isAnimating |-> FALSE]

\* setProgress clamps and sets the sheet angle to progress * 180
SetProgress(sh, page, progress) ==
  [sh EXCEPT ![page].progress = Clamp01(progress)]

BeginAnimation(sh, page) == [sh EXCEPT ![page].isAnimating = TRUE]

EndAnimation(sh, page) == [sh EXCEPT ![page].isAnimating = FALSE]

----------------------------------------------------------------------------
(* Sheet deformation (renderer/dflipDeform.ts): angles in whole degrees *)

clamp(value, min, max) == Max(min, Min(max, value))

\* getCurveAngle with the curve of a left turn for both directions
getCurveAngleLeftOnly(isLeftTurn, angleDeg, minClampDeg) ==
  clamp(IF angleDeg > 135 THEN 180 - (180 - angleDeg) * 2
        ELSE IF angleDeg > 45 THEN angleDeg - 45
        ELSE 0,
        minClampDeg, 180)

getCurveAngle(isLeftTurn, angleDeg, minClampDeg) ==
  IF isLeftTurn
  THEN clamp(IF angleDeg > 135 THEN 180 - (180 - angleDeg) * 2
             ELSE IF angleDeg > 45 THEN angleDeg - 45
             ELSE 0,
             minClampDeg, 180)
  ELSE clamp(IF angleDeg < 45 THEN 2 * angleDeg
             ELSE IF angleDeg < 135 THEN angleDeg + 45
             ELSE 180,
             0, 180 - minClampDeg)

\* Lengths of the sheet are fixed-point with GeoUnit = 1.0 (the page mesh
\* deforms a sheet of width 1 and depth 0.01); sines are in GeoUnit too
GeoUnit == 100 * 100

\* Math.sin of a whole multiple of 15 degrees
SinDeg(d) ==
  LET quarter == [a \in {0, 15, 30, 45, 60, 75, 90} |->
                    CASE a = 0 -> 0
                      [] a = 15 -> 2588
                      [] a = 30 -> 5000
                      [] a = 45 -> 7071
                      [] a = 60 -> 8660
                      [] a = 75 -> 9659
                      [] a = 90 -> GeoUnit]
      half(a) == IF a <= 90 THEN quarter[a] ELSE quarter[180 - a]
  IN  IF d < 0 THEN -half(Min(-d, 180))
      ELSE IF d <= 180 THEN half(d)
      ELSE -half(d - 180)

CosDeg(d) == SinDeg(d + 90)

\* 1 - Math.sin((e / 2) * (e / 2)) / 2 - e / 20 for a flexibility e given in
\* tenths: 1, 0.94377 and 0.85444
BaseAxisFactor(e) ==
  CASE e = 0 -> GeoUnit
    [] e = 5 -> 9438
    [] e = 9 -> 8544

\* Math.sqrt, rounded down
RECURSIVE SqrtBetween(_, _, _)
SqrtBetween(n, low, high) ==
  IF low >= high THEN low
  ELSE LET mid == (low + high + 1) \div 2
       IN  IF mid * mid <= n THEN SqrtBetween(n, mid, high)
           ELSE SqrtBetween(n, low, mid - 1)

Sqrt(n) == SqrtBetween(n, 0, 2 * GeoUnit + GeoUnit)

\* Vector3.distanceTo for two points <<x, z>> of a curve
DistanceTo(a, b) ==
  Sqrt((a[1] - b[1]) * (a[1] - b[1]) + (a[2] - b[2]) * (a[2] - b[2]))

\* CubicBezierCurve3.getPoint(i / w) for the control points c
BezierPoint(c, i, w) ==
  LET k == w - i
      b0 == k * k * k
      b1 == 3 * k * k * i
      b2 == 3 * k * i * i
      b3 == i * i * i
      at(j) == Quot(b0 * c[1][j] + b1 * c[2][j] + b2 * c[3][j] + b3 * c[4][j],
                    w * w * w)
  IN  <<at(1), at(2)>>

\* curve.getPoints(w), and the end point pushed once more when w > 2
CurvePoints(c, w) ==
  LET pts == [i \in 1..(w + 1) |-> BezierPoint(c, i - 1, w)]
  IN  IF w > 2 THEN Append(pts, pts[w + 1]) ELSE pts

\* the accumulated chord length up to point r (points are numbered from 1)
RECURSIVE ArcTo(_, _)
ArcTo(pts, r) ==
  IF r <= 1 THEN 0
  ELSE ArcTo(pts, r - 1) + DistanceTo(pts[r], pts[r - 1])

\* the front face u of a column mapped as on a left-side sheet whatever the side
uFrontLeftSided(pageSide, uArc) == uArc

\* const uFront = params.pageSide > 0 ? 1 - uArc : uArc
uFront(pageSide, uArc) == IF pageSide > 0 THEN GeoUnit - uArc ELSE uArc

\* updateSheetGeometry for a soft horizontal sheet of width 1 and depth 0.01:
\* the u coordinates it writes for the E columns of the front and the back
\* face, with the arc fractions they are made of, and the x of the front
\* columns
updateSheetGeometry(params) ==
  LET nearFlat == params.sheetAngleDeg < 1 \/ params.sheetAngleDeg > 179
      e == IF nearFlat THEN 0 ELSE params.flexibility
      n == BaseAxisFactor(e)
      o == Quot(n * e, 10)
      depth == GeoUnit \div 100
      f == params.sheetAngleDeg
      g == params.curveAngleDeg
      m == f - 90
      y == Quot(SinDeg(m) * depth, 2 * GeoUnit)
      v2 == 45 + f \div 2
      h == << <<Quot(-n * CosDeg(f), GeoUnit), Quot(SinDeg(f) * n, GeoUnit) - y>>,
              <<Quot(-n * CosDeg(g), 2 * GeoUnit),
                Quot(n * SinDeg(g), 2 * GeoUnit) - y>>,
              <<Quot(-CosDeg(v2) * o, 2 * GeoUnit),
                Quot(SinDeg(v2) * o, GeoUnit) - y>>,
              <<0, -y>> >>
      cm == Quot(CosDeg(m) * depth, GeoUnit)
      snap(x) == IF Abs(x) < 5 THEN 0 ELSE x
      u == << <<h[1][1] - cm, h[1][2] + 2 * y>>,
              <<h[2][1] - cm, h[2][2] + 2 * y>>,
              <<snap(h[3][1] + cm), h[3][2] + 2 * y>>,
              <<snap(h[4][1] - cm), h[4][2] + 2 * y>> >>
      w == Max(params.segments - 1, 1)
      frontPts == CurvePoints(h, w)
      backPts == CurvePoints(u, w)
      arcLength == ArcTo(frontPts, Len(frontPts))
      backArcLength == ArcTo(backPts, Len(backPts))
      E == Max(params.segments + 1, 2)
      fallback(r) == Quot((r - 1) * GeoUnit, Max(1, E - 1))
      uArc == [r \in 1..E |->
                 IF arcLength > 0
                 THEN Quot(ArcTo(frontPts, r) * GeoUnit, arcLength)
                 ELSE fallback(r)]
      uBackArc == [r \in 1..E |->
                     IF backArcLength > 0
                     THEN Quot(ArcTo(backPts, r) * GeoUnit, backArcLength)
                     ELSE fallback(r)]
      flip == IF params.pageSide > 0 THEN -1 ELSE 1
  IN  [uArc |-> uArc,
       uBackArc |-> uBackArc,
       uFront |-> [r \in 1..E |-> uFront(params.pageSide, uArc[r])],
       uBack |-> uBackArc,
       x |-> [r \in 1..E |-> frontPts[r][1] * flip],
       arcLength |-> arcLength,
       scaleX |-> IF arcLength > 0 THEN Quot(n * GeoUnit, arcLength)
                  ELSE GeoUnit]

----------------------------------------------------------------------------
(* TextureCache *)

PageRenderCacheLimit == 16      \* new TextureCache(16)

\* lastUsed of an entry built without one ({...loaded, key: cacheKey} over the
\* result of loadTextureFromBlob): undefined
Undefined == -1

NewTextureCache(limit) == [limit |-> limit, items |-> << >>, now |-> 0]

CachedTexture(key, lastUsed) == [key |-> key, lastUsed |-> lastUsed]

\* the Map items: a sequence of <<key, value>> in insertion order
ItemKeys(items) == {items[i][1] : i \in 1..Len(items)}

ItemIndex(items, key) == CHOOSE i \in 1..Len(items) : items[i][1] = key

\* get(key): a hit refreshes lastUsed
CacheGet(c, key) ==
  IF key \in ItemKeys(c.items)
  THEN [c EXCEPT !.items[ItemIndex(c.items, key)][2].lastUsed = c.now]
  ELSE c

\* Map.set: a key already present keeps its place
MapSet(items, key, value) ==
  IF key \in ItemKeys(items)
  THEN [items EXCEPT ![ItemIndex(items, key)] = <<key, value>>]
  ELSE Append(items, <<key, value>>)

\* Map.delete
MapDelete(items, key) ==
  SelectSeq(items, LAMBDA item : item[1] # key)

RECURSIVE MapDeleteAll(_, _)
MapDeleteAll(items, keys) ==
  IF keys = << >> THEN items
  ELSE MapDeleteAll(MapDelete(items, Head(keys)), Tail(keys))

\* (a, b) => a.lastUsed - b.lastUsed as Array.prototype.sort reads it: negative,
\* zero or positive, and NaN (one side undefined) counts as zero
CompareLastUsed(a, b) ==
  IF a.lastUsed = Undefined \/ b.lastUsed = Undefined THEN 0
  ELSE a.lastUsed - b.lastUsed

\* the comparator orders the values consistently: equality is transitive
ConsistentComparator(values) ==
  \A i, j, k \in 1..Len(values) :
    (CompareLastUsed(values[i], values[j]) = 0 /\
     CompareLastUsed(values[j], values[k]) = 0)
      => CompareLastUsed(values[i], values[k]) = 0

\* the ways of putting n values in a row
Orderings(n) ==
  {f \in [1..n -> 1..n] : \A i, j \in 1..n : i # j => f[i] # f[j]}

\* what entries.sort(...) may return: the stable ascending order when the
\* comparator is consistent, an order the implementation picks when it is not
SortedByLastUsed(values) ==
  LET n == Len(values)
      stable(f) ==
        \A i, j \in 1..n :
          i < j => \/ CompareLastUsed(values[f[i]], values[f[j]]) < 0
                   \/ /\ CompareLastUsed(values[f[i]], values[f[j]]) = 0
                      /\ f[i] < f[j]
  IN  {[i \in 1..n |-> values[f[i]]] :
         f \in {g \in Orderings(n) : ConsistentComparator(values) => stable(g)}}

\* evict(): the item sequences it can leave
Evict(c) ==
  IF Len(c.items) <= c.limit THEN {c}
  ELSE LET values == [i \in 1..Len(c.items) |-> c.items[i][2]]
           count == Max(0, Len(c.items) - c.limit)
       IN  {[c EXCEPT !.items =
               MapDeleteAll(c.items, [i \in 1..count |-> entries[i].key])] :
              entries \in SortedByLastUsed(values)}

\* set(key, value): the caches it can leave
CacheSet(c, key, value) == Evict([c EXCEPT !.items = MapSet(c.items, key, value)])

CacheDelete(c, key) == [c EXCEPT !.items = MapDelete(c.items, key)]

CacheClear(c) == [c EXCEPT !.items = << >>]

----------------------------------------------------------------------------
(* The rasterize limiter of the backend (services/limits.ts) and the       *)
(* requests of the /rasterize route that go through it                     *)

MaxConcurrentRasterize == 2     \* config.maxConcurrentRasterize
MaxRequests == 4                \* the requests that reach the limiter

\* createLimiter(maxConcurrent): active and queue are the closure's state.
\* requests is where each route handler stands: "new" (not arrived),
\* "waiting" (at await limiter.acquire()), "rasterizing" (rasterizePage
\* running, the race undecided), "timedOut" (the timeout won the race and
\* the handler has released; rasterizePage has no cancellation and is still
\* running), "done".  arrivals records the order of the acquire calls.
createLimiter(maxConcurrent) ==
  [maxConcurrent |-> maxConcurrent, active |-> 0, queue |-> << >>,
   requests |-> [r \in 1..MaxRequests |-> "new"], arrivals |-> << >>]

\* next(): the resolver at the head of the queue resolves that request's
\* acquire promise, and its handler goes on to rasterizePage
next(l) ==
  IF l.active >= l.maxConcurrent \/ l.queue = << >> THEN l
  ELSE [l EXCEPT !.active = @ + 1,
                 !.queue = Tail(@),
                 !.requests[Head(l.queue)] = "rasterizing"]

\* acquire() called by the handler of request r
acquire(l, r) ==
  next([l EXCEPT !.queue = Append(@, r),
                 !.requests[r] = "waiting",
                 !.arrivals = Append(@, r)])

\* the release function acquire resolved to
release(l) == next([l EXCEPT !.active = Max(0, @ - 1)])

\* the handler of request r after Promise.race settled: finally(release)
raceSettled(l, r, outcome) == release([l EXCEPT !.requests[r] = outcome])

\* no document loaded, nothing cached and no request at the backend
NoDocument ==
  /\ cache = NewTextureCache(PageRenderCacheLimit)
  /\ pipe = Null
  /\ limiter = createLimiter(MaxConcurrentRasterize)

----------------------------------------------------------------------------
(* The texture pipeline of the page (main.ts) *)

PageCacheWindow == 3
Qualities == {"under", "high"}      \* underQualityScale 0.9, activeQualityBoost 1.2

\* a face without a texture (setTexture(null)), shaped like a cache key
NoTexture == <<0, 0, "null">>

\* buildPageCacheKey: the document, the page and the target size; the layout
\* mode and the scale are the same for every request of a behaviour
PageKey(p, page, quality) == <<p.documentId, page, quality>>

NoFaces ==
  [left |-> NoTexture, leftBack |-> NoTexture,
   right |-> NoTexture, rightBack |-> NoTexture,
   underLeft |-> NoTexture, underLeftBack |-> NoTexture,
   underRight |-> NoTexture, underRightBack |-> NoTexture]

\* the module state of main.ts once a document with total pages is uploaded
NewPipeline(layout, total) ==
  [documentId |-> 1, totalDocumentPages |-> total, layout |-> layout,
   currentPageNumber |-> 1, currentSpreadLeft |-> 1,
   underDirection |-> "forward",
   spreadRequestId |-> 0, activeSpreadId |-> 0,
   underRequestId |-> 0, activeUnderId |-> 0,
   pageRenderCache |-> {}, pageRenderPromises |-> {},
   fetches |-> << >>,           \* promise bodies running: key -> how many
   tasks |-> << >>,             \* async calls suspended at an await
   faces |-> NoFaces,
   layoutSize |-> NoTexture,    \* the render updateLayout was last given
   controllerCalls |-> << >>,   \* setTotalPages / setCurrentPage to deliver
   failures |-> 0,              \* how many requests have failed
   refused |-> "none",          \* the direction canStartDrag last refused
   refusals |-> 0,              \* how often canStartDrag has refused
   pageChanges |-> 0,           \* how often onPageChange has been called
   windowEnforced |-> FALSE]    \* enforcePageCacheWindow has run since the
                                \* cache last grew or the spread last changed

InRange(p, page) == page >= 1 /\ page <= p.totalDocumentPages

FetchCount(p, key) == IF key \in DOMAIN p.fetches THEN p.fetches[key] ELSE 0

AddFetches(fetches, keys) ==
  [k \in DOMAIN fetches \cup keys |->
     (IF k \in DOMAIN fetches THEN fetches[k] ELSE 0) +
     (IF k \in keys THEN 1 ELSE 0)]

RemoveFetch(fetches, key) ==
  [k \in {j \in DOMAIN fetches : j # key \/ fetches[j] > 1} |->
     IF k = key THEN fetches[k] - 1 ELSE fetches[k]]

\* requestAndLoadPage without the lookup in the promise map
StartsFetchUncoalesced(p, key) == key \notin p.pageRenderCache

\* requestAndLoadPage starts the promise body when the key is neither cached
\* nor in the promise map
StartsFetch(p, key) ==
  /\ key \notin p.pageRenderCache
  /\ key \notin p.pageRenderPromises

\* the synchronous part of requestAndLoadPage, for each key asked for
RequestAndLoadPages(p, keys) ==
  LET started == {k \in keys : StartsFetch(p, k)}
  IN  [p EXCEPT !.fetches = AddFetches(@, started),
                !.pageRenderPromises = @ \cup started]

\* nobody awaits the call
NoParent == <<"none", 0>>

\* a suspended async call: the request id it captured, the textures it asked
\* for (NoTexture where it asked for none), the page numbers it captured and
\* the keys it still awaits; startedUnder records, for the properties, the
\* latest under-spread request at the time of the call
Task(p, fn, pc, id, textures, pages, parent) ==
  [fn |-> fn, pc |-> pc, id |-> id,
   left |-> textures[1], right |-> textures[2], back |-> textures[3],
   pageNumber |-> pages[1], leftPage |-> pages[2], rightPage |-> pages[3],
   parent |-> parent[1], parentId |-> parent[2],
   startedUnder |-> p.underRequestId,
   wait |-> {k \in {textures[1], textures[2], textures[3]} \ {NoTexture} :
               k \notin p.pageRenderCache}]

Spawn(p, task) == [p EXCEPT !.tasks = Append(@, task)]

\* request the given textures, then suspend on them
Await(p, fn, pc, id, textures, pages, parent) ==
  LET p1 == RequestAndLoadPages(
              p, {textures[1], textures[2], textures[3]} \ {NoTexture})
  IN  Spawn(p1, Task(p1, fn, pc, id, textures, pages, parent))

\* requests whose result nobody looks at (the cache is all they fill)
Warm(p, pages) ==
  RequestAndLoadPages(
    p, {PageKey(p, page, "under") : page \in {q \in pages : InRange(p, q)}})

resolveSpread(p, pageNumber) ==
  IF p.layout # "double"
  THEN [left |-> pageNumber, right |-> 0, spreadLeft |-> pageNumber]
  ELSE IF pageNumber < 1
  THEN [left |-> 0, right |-> 0, spreadLeft |-> pageNumber]
  ELSE LET spreadLeft == IF pageNumber % 2 = 0 THEN pageNumber - 1
                         ELSE pageNumber
       IN  [left |-> spreadLeft,
            right |-> IF spreadLeft + 1 <= p.totalDocumentPages
                      THEN spreadLeft + 1 ELSE 0,
            spreadLeft |-> spreadLeft]

getUnderPages(p, direction) ==
  IF direction = "forward"
  THEN [underLeft |-> p.currentSpreadLeft + 2,
        underRight |-> p.currentSpreadLeft + 3]
  ELSE [underLeft |-> p.currentSpreadLeft - 2,
        underRight |-> p.currentSpreadLeft - 1]

getTurningBackPage(p, direction) ==
  IF direction = "forward" THEN p.currentSpreadLeft + 2
  ELSE p.currentSpreadLeft - 1

\* getCachedPageRender(...) is not null
Cached(p, page) == PageKey(p, page, "under") \in p.pageRenderCache

\* UnderTexture without the range test of loadUnderSpread
UnderTextureUnchecked(p, page) == PageKey(p, page, "under")

\* the texture a request for page resolves to, none for a page out of range
UnderTexture(p, page) ==
  IF InRange(p, page) THEN PageKey(p, page, "under") ELSE NoTexture

areUnderPagesReady(p, direction) ==
  \/ p.layout # "double"
  \/ LET under == getUnderPages(p, direction)
     IN  /\ ~InRange(p, under.underLeft) \/ Cached(p, under.underLeft)
         /\ ~InRange(p, under.underRight) \/ Cached(p, under.underRight)

isTurningBackReady(p, direction) ==
  LET targetPage ==
        IF p.layout = "single"
        THEN (IF direction = "forward" THEN p.currentPageNumber + 1
              ELSE p.currentPageNumber - 1)
        ELSE getTurningBackPage(p, direction)
  IN  ~InRange(p, targetPage) \/ Cached(p, targetPage)

applyUnderFromCache(p, direction) ==
  IF p.layout # "double" THEN p
  ELSE LET under == getUnderPages(p, direction)
           leftCached == InRange(p, under.underLeft) /\ Cached(p, under.underLeft)
           rightCached == InRange(p, under.underRight) /\ Cached(p, under.underRight)
           leftKey == PageKey(p, under.underLeft, "under")
           rightKey == PageKey(p, under.underRight, "under")
       IN  [p EXCEPT
              !.faces.underLeft = IF leftCached THEN leftKey ELSE @,
              !.faces.underRight = IF rightCached THEN rightKey ELSE @,
              !.faces.underLeftBack =
                 IF leftCached /\ rightCached THEN rightKey ELSE @,
              !.faces.underRightBack =
                 IF leftCached /\ rightCached THEN leftKey ELSE @]

loadTurningBackTexture(p, direction) ==
  IF p.layout = "single"
  THEN LET targetPage == IF direction = "forward" THEN p.currentPageNumber + 1
                         ELSE p.currentPageNumber - 1
       IN  IF ~InRange(p, targetPage)
           THEN [p EXCEPT !.faces.leftBack = NoTexture]
           ELSE Await(p, "loadTurningBackTexture", "back", 0,
                      <<NoTexture, NoTexture, PageKey(p, targetPage, "under")>>,
                      <<0, 0, 0>>, NoParent)
  ELSE Warm(p, {getTurningBackPage(p, direction)})

prefetchAdjacentPages(p) ==
  IF p.layout = "double"
  THEN Warm(p, {p.currentSpreadLeft + 2, p.currentSpreadLeft + 3,
                p.currentSpreadLeft - 2, p.currentSpreadLeft - 1})
  ELSE Warm(p, {p.currentPageNumber + 1, p.currentPageNumber - 1})

\* enforcePageCacheWindow without the test of the document id
enforcePageCacheWindowAnyDocument(p) ==
  LET base == IF p.layout = "double" THEN p.currentSpreadLeft
              ELSE Max(1, p.currentPageNumber)
  IN  [p EXCEPT !.pageRenderCache =
         {k \in @ : k[2] >= Max(1, base - PageCacheWindow) /\
                    k[2] <= Min(p.totalDocumentPages, base + PageCacheWindow)},
                !.windowEnforced = TRUE]

enforcePageCacheWindow(p) ==
  LET base == IF p.layout = "double" THEN p.currentSpreadLeft
              ELSE Max(1, p.currentPageNumber)
      minPage == Max(1, base - PageCacheWindow)
      maxPage == Min(p.totalDocumentPages, base + PageCacheWindow)
  IN  [p EXCEPT !.pageRenderCache =
         {k \in @ : k[1] = p.documentId /\ k[2] >= minPage /\ k[2] <= maxPage},
                !.windowEnforced = TRUE]

preloadDirection(p, direction) ==
  IF p.layout # "double" THEN p
  ELSE LET under == getUnderPages(p, direction)
       IN  Await(p, "preloadDirection", "under", 0,
                 <<UnderTexture(p, under.underLeft),
                   UnderTexture(p, under.underRight), NoTexture>>,
                 <<0, 0, 0>>, NoParent)

\* the high-resolution pass at the end of loadCurrentSpread / handleRender
highRes(p, parent, pages) ==
  IF parent[1] = "handleRender" /\ parent[2] # p.activeSpreadId THEN p
  ELSE Await(p, "highRes", "high", parent[2],
             <<IF pages[2] # 0 THEN PageKey(p, pages[2], "high") ELSE NoTexture,
               IF p.layout = "double" /\ pages[3] # 0 /\
                  pages[3] <= p.totalDocumentPages
               THEN PageKey(p, pages[3], "high") ELSE NoTexture,
               NoTexture>>,
             pages, NoParent)

\* what loadCurrentSpread / handleRender do once their await of
\* loadUnderSpread returns
afterUnderSpread(p, parent, pages) ==
  IF parent = NoParent THEN p
  ELSE highRes(
         enforcePageCacheWindow(
           prefetchAdjacentPages(
             preloadDirection(
               preloadDirection(
                 loadTurningBackTexture(
                   loadTurningBackTexture(p, "forward"), "backward"),
                 "forward"),
               "backward"))),
         parent, pages)

\* loadUnderSpread up to its await; parent names the caller that awaits it
loadUnderSpread(p, direction, parent, pages) ==
  IF p.layout # "double"
  THEN afterUnderSpread(
         [p EXCEPT !.faces.underLeft = NoTexture,
                   !.faces.underRight = NoTexture],
         parent, pages)
  ELSE LET requestId == p.underRequestId + 1
           under == getUnderPages(p, direction)
           p1 == [p EXCEPT !.underRequestId = requestId,
                           !.activeUnderId = requestId]
       IN  Await(p1, "loadUnderSpread", "under", requestId,
                 <<UnderTexture(p, under.underLeft),
                   UnderTexture(p, under.underRight), NoTexture>>,
                 pages, parent)

\* loadUnderSpread after its await
underSpreadLoaded(p, t) ==
  LET p1 ==
        IF t.id # p.activeUnderId THEN p
        ELSE [p EXCEPT
                !.faces.underLeft = t.left,
                !.faces.underRight = t.right,
                !.faces.underLeftBack =
                   IF t.left # NoTexture /\ t.right # NoTexture THEN t.right
                   ELSE NoTexture,
                !.faces.underRightBack =
                   IF t.left # NoTexture /\ t.right # NoTexture THEN t.left
                   ELSE NoTexture]
  IN  afterUnderSpread(p1, <<t.parent, t.parentId>>,
                       <<t.pageNumber, t.leftPage, t.rightPage>>)

\* preloadDirection after its await
directionPreloaded(p, t) ==
  [p EXCEPT
     !.faces.underLeft = IF t.left # NoTexture THEN t.left ELSE @,
     !.faces.underRight = IF t.right # NoTexture THEN t.right ELSE @,
     !.faces.underLeftBack =
        IF t.left # NoTexture /\ t.right # NoTexture THEN t.right ELSE @,
     !.faces.underRightBack =
        IF t.left # NoTexture /\ t.right # NoTexture THEN t.left ELSE @]

\* the high-resolution pass after its await
highResLoaded(p, t) ==
  IF t.id # p.activeSpreadId THEN p
  ELSE [p EXCEPT
          !.faces.left = IF t.left # NoTexture THEN t.left ELSE @,
          !.faces.right = IF t.right # NoTexture THEN t.right ELSE @,
          !.faces.leftBack =
             IF t.left # NoTexture /\ t.right # NoTexture THEN t.right ELSE @]

\* loadRightBack of loadCurrentSpread, up to its await
loadRightBack(p, id, pageNumber) ==
  IF pageNumber = 0 \/ p.layout # "double" THEN p
  ELSE IF pageNumber + 1 > p.totalDocumentPages
  THEN [p EXCEPT !.faces.rightBack = NoTexture]
  ELSE Await(p, "loadRightBack", "back", id,
             <<NoTexture, NoTexture, PageKey(p, pageNumber + 1, "under")>>,
             <<0, 0, pageNumber>>, NoParent)

rightBackLoaded(p, t) ==
  IF t.id # p.activeSpreadId THEN p
  ELSE [p EXCEPT !.faces.rightBack = t.back]

\* loadCurrentSpread up to the await of its low-resolution pass
loadCurrentSpread(p) ==
  LET spread == resolveSpread(p, p.currentPageNumber)
      requestId == p.spreadRequestId + 1
      p1 == [p EXCEPT !.currentSpreadLeft = spread.spreadLeft,
                      !.spreadRequestId = requestId,
                      !.activeSpreadId = requestId]
  IN  Await(p1, "loadCurrentSpread", "low", requestId,
            <<IF spread.left # 0 THEN PageKey(p, spread.left, "under")
              ELSE NoTexture,
              IF p.layout = "double" /\ spread.right # 0 /\
                 spread.right <= p.totalDocumentPages
              THEN PageKey(p, spread.right, "under") ELSE NoTexture,
              NoTexture>>,
            <<p.currentPageNumber, spread.left, spread.right>>,
            NoParent)

\* loadCurrentSpread from the end of its low-resolution pass to the await of
\* loadUnderSpread
currentSpreadLoaded(p, t) ==
  IF t.id # p.activeSpreadId THEN p
  ELSE LET referenceRender == IF t.left # NoTexture THEN t.left ELSE t.right
           p1 == [p EXCEPT
                    !.faces.left = t.left,
                    !.faces.leftBack =
                       IF t.left # NoTexture /\ t.right # NoTexture
                       THEN t.right ELSE @,
                    !.faces.right = t.right]
           p2 == loadRightBack(p1, t.id, t.rightPage)
           p3 == [p2 EXCEPT !.layoutSize =
                    IF referenceRender # NoTexture THEN referenceRender ELSE @]
       IN  loadUnderSpread(p3, p3.underDirection,
                           <<"loadCurrentSpread", t.id>>,
                           <<t.pageNumber, t.leftPage, t.rightPage>>)

\* handleRender from the end of its back-face request on
renderBackLoaded(p, t) ==
  LET referenceRender == IF t.left # NoTexture THEN t.left ELSE t.right
      p1 == [p EXCEPT
               !.faces.rightBack =
                  IF t.back # NoTexture /\ t.id = p.activeSpreadId
                  THEN t.back ELSE @,
               !.layoutSize =
                  IF referenceRender # NoTexture THEN referenceRender ELSE @,
               !.controllerCalls =
                  Append(@, <<p.totalDocumentPages, t.pageNumber - 1>>)]
  IN  loadUnderSpread(p1, p1.underDirection, <<"handleRender", t.id>>,
                      <<t.pageNumber, t.leftPage, t.rightPage>>)

\* handleRender from the end of its right-page request to the await of the
\* back face
renderRightLoaded(p, t) ==
  IF t.right # NoTexture /\ t.id # p.activeSpreadId THEN p
  ELSE LET p1 == [p EXCEPT
                    !.faces.right = t.right,
                    !.faces.leftBack =
                       IF t.left # NoTexture /\ t.right # NoTexture
                       THEN t.right ELSE @]
           asksBack == p.layout = "double" /\ t.rightPage # 0
           backPageNumber == t.rightPage + 1
       IN  IF ~asksBack THEN renderBackLoaded(p1, t)
           ELSE IF backPageNumber > p.totalDocumentPages
           THEN renderBackLoaded([p1 EXCEPT !.faces.rightBack = NoTexture], t)
           ELSE LET back == PageKey(p, backPageNumber, "under")
                    t1 == [t EXCEPT !.back = back, !.pc = "back"]
                    p2 == RequestAndLoadPages(p1, {back})
                IN  IF back \in p2.pageRenderCache
                    THEN renderBackLoaded(p2, t1)
                    ELSE Spawn(p2, [t1 EXCEPT !.wait = {back}])

\* handleRender from the end of its left-page request to the await of the
\* right page
renderLeftLoaded(p, t) ==
  IF t.left # NoTexture /\ t.id # p.activeSpreadId THEN p
  ELSE LET p1 == [p EXCEPT !.faces.left = t.left]
           asksRight == p.layout = "double" /\ t.rightPage # 0
       IN  IF ~asksRight THEN renderRightLoaded(p1, t)
           ELSE LET right == PageKey(p, t.rightPage, "under")
                    t1 == [t EXCEPT !.right = right, !.pc = "right"]
                    p2 == RequestAndLoadPages(p1, {right})
                IN  IF right \in p2.pageRenderCache
                    THEN renderRightLoaded(p2, t1)
                    ELSE Spawn(p2, [t1 EXCEPT !.wait = {right}])

\* handleRender up to the await of its left-page request
handleRender(p, pageNumber) ==
  LET requestId == p.spreadRequestId + 1
      p0 == [p EXCEPT !.currentPageNumber = pageNumber,
                      !.windowEnforced = FALSE,
                      !.spreadRequestId = requestId,
                      !.activeSpreadId = requestId]
      spread == resolveSpread(p0, pageNumber)
      p1 == [p0 EXCEPT !.currentSpreadLeft = spread.spreadLeft]
      left == IF spread.left # 0 THEN PageKey(p, spread.left, "under")
              ELSE NoTexture
      t == Task(p1, "handleRender", "left", requestId,
                <<left, NoTexture, NoTexture>>,
                <<pageNumber, spread.left, spread.right>>, NoParent)
      p2 == RequestAndLoadPages(p1, {left} \ {NoTexture})
  IN  IF t.wait = {} THEN renderLeftLoaded(p2, t) ELSE Spawn(p2, t)

\* the code after the await a task was suspended at
Resume(p, t) ==
  IF t.fn = "handleRender"
  THEN (IF t.pc = "left" THEN renderLeftLoaded(p, t)
        ELSE IF t.pc = "right" THEN renderRightLoaded(p, t)
        ELSE renderBackLoaded(p, t))
  ELSE IF t.fn = "loadCurrentSpread" THEN currentSpreadLoaded(p, t)
  ELSE IF t.fn = "loadRightBack" THEN rightBackLoaded(p, t)
  ELSE IF t.fn = "loadUnderSpread" THEN underSpreadLoaded(p, t)
  ELSE IF t.fn = "preloadDirection" THEN directionPreloaded(p, t)
  ELSE IF t.fn = "highRes" THEN highResLoaded(p, t)
  ELSE [p EXCEPT !.faces.leftBack = t.back]

Runnable(p) == {i \in 1..Len(p.tasks) : p.tasks[i].wait = {}}

\* the microtasks of one event: every call whose awaits are settled runs on,
\* oldest first, until all that are left wait for the network
RECURSIVE Drain(_)
Drain(p) ==
  IF Runnable(p) = {} THEN p
  ELSE LET i == CHOOSE j \in Runnable(p) : \A k \in Runnable(p) : j <= k
           t == p.tasks[i]
           rest == [p EXCEPT !.tasks =
                      SubSeq(@, 1, i - 1) \o SubSeq(@, i + 1, Len(@))]
       IN  Drain(Resume(rest, t))

\* the promise body of key finishes: the render enters the cache, the creator
\* drops the map entry, and everyone awaiting the promise runs on
fetchSucceeds(p, key) ==
  Drain([p EXCEPT
           !.windowEnforced = FALSE,
           !.fetches = RemoveFetch(@, key),
           !.pageRenderCache = @ \cup {key},
           !.pageRenderPromises = @ \ {key},
           !.tasks = [i \in 1..Len(p.tasks) |->
                        [p.tasks[i] EXCEPT !.wait = @ \ {key}]]])

\* the promise body of key throws and the faces lose their textures
fetchFailsClearsFaces(p, key) ==
  [p EXCEPT
     !.fetches = RemoveFetch(@, key),
     !.pageRenderPromises = @ \ {key},
     !.tasks = SelectSeq(@, LAMBDA t : key \notin t.wait),
     !.faces = NoFaces,
     !.failures = @ + 1]

\* the promise body of key throws and the entry stays in the promise map
fetchFailsKeepsPromise(p, key) ==
  [p EXCEPT
     !.fetches = RemoveFetch(@, key),
     !.tasks = SelectSeq(@, LAMBDA t : key \notin t.wait),
     !.failures = @ + 1]

\* the promise body of key throws: everyone awaiting the promise is rejected
fetchFails(p, key) ==
  [p EXCEPT
     !.fetches = RemoveFetch(@, key),
     !.pageRenderPromises = @ \ {key},
     !.tasks = SelectSeq(@, LAMBDA t : key \notin t.wait),
     !.failures = @ + 1]

\* handleUpload once the upload has answered: the new document has a fresh
\* id (the backend draws a UUID)
handleUpload(p, pageCount) ==
  [p EXCEPT !.documentId = @ + 1,
            !.windowEnforced = FALSE,
            !.pageRenderCache = {},
            !.pageRenderPromises = {},
            !.totalDocumentPages = pageCount]

\* config.canStartDrag answering true although nothing is cached
canStartDragUnchecked(p, direction) == TRUE

\* config.canStartDrag of the controller
canStartDrag(p, direction) ==
  areUnderPagesReady(p, direction) /\ isTurningBackReady(p, direction)

\* what canStartDrag starts when it answers false
dragRefused(p, direction) ==
  Drain(loadTurningBackTexture(
          loadUnderSpread([p EXCEPT !.refused = direction,
                                    !.refusals = @ + 1],
                          direction, NoParent, <<0, 0, 0>>),
          direction))

\* setTurnStartCallback
onTurnStart(p, direction) ==
  LET p1 == applyUnderFromCache([p EXCEPT !.underDirection = direction],
                                direction)
  IN  Drain(loadUnderSpread(loadTurningBackTexture(p1, direction),
                            direction, NoParent, <<0, 0, 0>>))

\* setPageChangeCallback
onPageChange(p, newPage) ==
  Drain(loadCurrentSpread([p EXCEPT !.currentPageNumber = newPage + 1,
                                    !.pageChanges = @ + 1,
                                    !.windowEnforced = FALSE]))

----------------------------------------------------------------------------
(* FlipbookController: configuration and inputs *)

DragThreshold == 10             \* pixels
CornerHitArea == 18             \* percent of the page
EdgeHitArea == 12               \* percent of the page
ScriptedVelocity == 3 * Half    \* physics.release(1, 1.5)

DragFeels == {"snappy", "soft"}

\* what getPageHit returns: no hit, or the page hit with its local u, v (percent)
\* and the on-screen width of its bounds (pixels)
NoHit == [page |-> Null, u |-> 0, v |-> 0, width |-> 0]
Hits ==
  {NoHit,
   [page |-> "right", u |-> 95, v |-> 95, width |-> 100],   \* outer corner
   [page |-> "right", u |-> 50, v |-> 50, width |-> 100],   \* middle of the page
   [page |-> "left", u |-> 5, v |-> 50, width |-> 100],     \* outer edge
   [page |-> "left", u |-> 95, v |-> 95, width |-> 100]}    \* next to the spine

\* Pointer input.  Both pages are 100 pixels wide on screen; a drag starts at
\* x = 50 and its samples lie 20 and 51 pixels to either side of the start.
DownXs == {50}
MoveXs == {-1, 30, 70, 101}
PointerYs == {50}
MoveDts == {200}                \* ms between two move samples
\* Time.  The render loop calls update at 60 Hz; animation frames arrive at
\* the step cap or later, so every frame integrates the capped step.
UpdateDeltas == {16}
FrameDts == {MaxStepMs, 40}
Keys == {"ArrowRight", " ", "ArrowLeft", "Enter"}

\* Math.pow(r, 0.85) for r = i/100, i = 0..100, rounded to the fixed point
Pow085Table ==
  <<0, 1995, 3596, 5076, 6483, 7837, 9150, 10431, 11685, 12915, 14125, 15317,
    16493, 17654, 18802, 19938, 21062, 22176, 23280, 24375, 25461, 26539,
    27610, 28673, 29729, 30779, 31822, 32859, 33891, 34917, 35938, 36954,
    37964, 38971, 39972, 40969, 41962, 42951, 43936, 44916, 45893, 46867,
    47837, 48803, 49766, 50726, 51683, 52636, 53586, 54534, 55478, 56420,
    57359, 58295, 59229, 60160, 61089, 62015, 62938, 63859, 64778, 65695,
    66609, 67521, 68431, 69339, 70245, 71148, 72050, 72949, 73847, 74743,
    75637, 76529, 77419, 78307, 79194, 80079, 80962, 81843, 82723, 83601,
    84478, 85353, 86226, 87098, 87968, 88836, 89704, 90569, 91434, 92296,
    93158, 94018, 94877, 95734, 96590, 97444, 98297, 99149, 100000>>

\* rawProgress of handlePointerMove: the ratio, eased by pow 0.85 when soft
RawProgress(ratio, feel) ==
  IF feel = "soft" THEN Pow085Table[(ratio * 100) \div Unit + 1] ELSE ratio

SnapThreshold(feel) == IF feel = "snappy" THEN 18 * (Unit \div 100)
                       ELSE 8 * (Unit \div 100)

\* target of handlePointerMove: raw progress snapped to 0 or 1 near the ends
SnapProgress(rawProgress, feel) ==
  IF rawProgress > Unit - SnapThreshold(feel) THEN Unit
  ELSE IF rawProgress < SnapThreshold(feel) THEN 0
  ELSE rawProgress

\* velocityThreshold of handlePointerUp, in 1/1000 pixel per ms
VelocityThreshold(feel) == IF feel = "snappy" THEN 140 ELSE 80

\* velocityComplete with the direction of the turn ignored: a fault C7 has to
\* notice
VelocityCompleteAnyDirection(velocity, turnDirection, feel) ==
  Abs(velocity) > VelocityThreshold(feel)

\* velocityComplete of handlePointerUp; velocity in 1/1000 pixel per ms
VelocityComplete(velocity, turnDirection, feel) ==
  LET directionSign == IF turnDirection = "forward" THEN -1 ELSE 1
  IN  velocity * directionSign > VelocityThreshold(feel)

\* alpha of update, in 1/1000: delta > 0 ? 1 - exp(-strength * delta) : 1,
\* strength 22 (snappy) or 10 (soft): 0.297 and 0.148 at 16 ms, and 1.000
\* to three places once delta is a second or more
SmoothingAlpha(feel, deltaMs) ==
  IF deltaMs <= 0 THEN 1000
  ELSE IF deltaMs = 16 THEN (IF feel = "snappy" THEN 297 ELSE 148)
  ELSE 1000

\* detectHitZone taking the whole page for the edge zone
DetectHitZoneWholePage(u, v) == "edge"

DetectHitZone(u, v) ==
  LET nearOuter == u > 100 - EdgeHitArea
      nearCornerOuter == u > 100 - CornerHitArea
      nearTop == v > 100 - CornerHitArea
      nearBottom == v < CornerHitArea
  IN  IF ~nearOuter THEN "none"
      ELSE IF nearCornerOuter /\ (nearTop \/ nearBottom) THEN "corner"
      ELSE "edge"

\* side of the page hit and u measured from the spine to the outer edge
HitSide(sh, hit) == sh[hit.page].side
HitOuterU(sh, hit) == IF HitSide(sh, hit) = "left" THEN 100 - hit.u ELSE hit.u

NewController(feel) ==
  [turningPage |-> Null, turnDirection |-> Null,
   isDragging |-> FALSE, dragStartX |-> 0, dragBounds |-> FALSE,
   dragPageWidthPx |-> 0, dragLastX |-> 0, dragVelocity |-> 0,
   dragSide |-> Null, hasExceededThreshold |-> FALSE,
   dragTargetProgress |-> 0, dragCurrentProgress |-> 0,
   animationFrame |-> FALSE, dragFeel |-> feel,
   moves |-> 0, updates |-> 0]

StartAnimationLoop(c) ==
  IF c.animationFrame THEN c ELSE [c EXCEPT !.animationFrame = TRUE]

StopAnimationLoop(c) == [c EXCEPT !.animationFrame = FALSE]

\* the listener without endAnimation on the way to IDLE: a fault C34 has to
\* notice
StateListenerLeavesAnimating(c, sh, oldState, newState) ==
  LET forward == newState \in {DRAGGING_FORWARD, ANIMATING_FORWARD}
      backward == newState \in {DRAGGING_BACKWARD, ANIMATING_BACKWARD}
      c1 == IF forward
              THEN [c EXCEPT !.turnDirection = "forward", !.turningPage = "right"]
            ELSE IF backward
              THEN [c EXCEPT !.turnDirection = "backward", !.turningPage = "left"]
            ELSE c
      sh1 == IF forward \/ backward THEN BeginAnimation(sh, c1.turningPage)
             ELSE sh
      c2 == IF newState = SETTLING THEN StartAnimationLoop(c1) ELSE c1
      toIdle == newState = IDLE /\ oldState # IDLE
      sh2 == IF toIdle /\ c2.turningPage # Null
               THEN SetProgress(sh1, c2.turningPage, 0)
             ELSE sh1
      c3 == IF toIdle
              THEN [c2 EXCEPT !.turningPage = Null, !.turnDirection = Null]
            ELSE c2
  IN  [ctl |-> c3, sheets |-> sh2]

\* the listener setupStateListeners registers; yields the controller fields
\* and the sheets after it ran
StateListener(c, sh, oldState, newState) ==
  LET forward == newState \in {DRAGGING_FORWARD, ANIMATING_FORWARD}
      backward == newState \in {DRAGGING_BACKWARD, ANIMATING_BACKWARD}
      c1 == IF forward
              THEN [c EXCEPT !.turnDirection = "forward", !.turningPage = "right"]
            ELSE IF backward
              THEN [c EXCEPT !.turnDirection = "backward", !.turningPage = "left"]
            ELSE c
      sh1 == IF forward \/ backward THEN BeginAnimation(sh, c1.turningPage)
             ELSE sh
      c2 == IF newState = SETTLING THEN StartAnimationLoop(c1) ELSE c1
      toIdle == newState = IDLE /\ oldState # IDLE
      sh2 == IF toIdle /\ c2.turningPage # Null
               THEN SetProgress(EndAnimation(sh1, c2.turningPage),
                                c2.turningPage, 0)
             ELSE sh1
      c3 == IF toIdle
              THEN [c2 EXCEPT !.turningPage = Null, !.turnDirection = Null]
            ELSE c2
  IN  [ctl |-> c3, sheets |-> sh2]

\* setState: listeners run only when the state really changes
SetStateNotify(c, sh, oldState, newState) ==
  IF oldState = newState THEN [ctl |-> c, sheets |-> sh]
  ELSE StateListener(c, sh, oldState, newState)

----------------------------------------------------------------------------
(* FlipbookController: event handlers and public methods *)

\* a returned boolean as the call record keeps it
Returned(b) == IF b THEN "true" ELSE "false"

\* the record of a direct call; steps counts the physics steps made since
\* the position was last set
CallRecord(op, arg, ret, steps) ==
  [op |-> op, arg |-> arg, ret |-> ret, steps |-> steps]

Called(op, arg, ret) == call' = CallRecord(op, arg, ret, 0)

\* handlePointerDown without the test of the current state: a fault C5 has
\* to notice
PointerDownStartsDragAnyState(primary, hit, ready) ==
  /\ primary
  /\ hit.page # Null
  /\ DetectHitZone(HitOuterU(sheets, hit), hit.v) # "none"
  /\ ~(HitSide(sheets, hit) = "right" /\ ~CanTurnForward(sm))
  /\ ~(HitSide(sheets, hit) = "left" /\ ~CanTurnBackward(sm))
  /\ ready

\* handlePointerDown gets past all of its early returns; ready is the answer
\* of config.canStartDrag
PointerDownStartsDrag(primary, hit, ready) ==
  /\ sm.state \in {IDLE, HOVER_CORNER_LEFT, HOVER_CORNER_RIGHT}
  /\ primary
  /\ hit.page # Null
  /\ DetectHitZone(HitOuterU(sheets, hit), hit.v) # "none"
  /\ ~(HitSide(sheets, hit) = "right" /\ ~CanTurnForward(sm))
  /\ ~(HitSide(sheets, hit) = "left" /\ ~CanTurnBackward(sm))
  /\ ready

HandlePointerDown(primary, hit, x, y, ready) ==
  /\ UNCHANGED call
  /\ IF ~PointerDownStartsDrag(primary, hit, ready)
     THEN UNCHANGED <<sm, physics, sheets, ctl>>
     ELSE LET side == HitSide(sheets, hit)
              c0 == [ctl EXCEPT
                       !.isDragging = TRUE, !.dragStartX = x, !.dragLastX = x,
                       !.dragVelocity = 0, !.dragBounds = TRUE,
                       !.dragPageWidthPx = Max(hit.width, 1),
                       !.dragSide = side, !.hasExceededThreshold = FALSE,
                       !.dragTargetProgress = 0, !.dragCurrentProgress = 0,
                       !.moves = 0, !.updates = 0]
              m1 == StartDrag(sm, x, y, side)
              n == SetStateNotify(c0, sheets, sm.state, m1.state)
          IN  /\ sm' = m1
              /\ ctl' = n.ctl
              /\ sheets' = n.sheets
              /\ physics' = SetPosition(physics, 0)

\* the hover branch of handlePointerMove (no drag in progress)
HoverMove(hit) ==
  LET inZone == /\ hit.page # Null
                /\ DetectHitZone(HitOuterU(sheets, hit), hit.v) # "none"
      m1 == IF inZone THEN HoverCorner(sm, HitSide(sheets, hit))
            ELSE LeaveCorner(sm)
      n == SetStateNotify(ctl, sheets, sm.state, m1.state)
  IN  /\ sm' = m1
      /\ ctl' = n.ctl
      /\ sheets' = n.sheets
      /\ UNCHANGED physics

\* the drag branch of handlePointerMove; dt is the time since the last sample
DragMove(x, y, dt) ==
  IF \/ sm.state \notin DraggingStates
     \/ ctl.dragSide = Null \/ ~ctl.dragBounds
     \/ (~ctl.hasExceededThreshold /\ Abs(x - ctl.dragStartX) < DragThreshold)
  THEN UNCHANGED <<sm, physics, sheets, ctl>>
  ELSE LET signedDrag == IF ctl.dragSide = "right" THEN ctl.dragStartX - x
                         ELSE x - ctl.dragStartX
           ratio == Clamp01(Quot(signedDrag * Unit, ctl.dragPageWidthPx))
           target == SnapProgress(RawProgress(ratio, ctl.dragFeel), ctl.dragFeel)
           dx == x - ctl.dragLastX
       IN  /\ sm' = UpdateDrag(sm, x, y, target)
           /\ ctl' = [ctl EXCEPT
                        !.hasExceededThreshold = TRUE,
                        !.dragTargetProgress = target,
                        !.dragVelocity = Quot(dx * 1000, Max(1, dt)),
                        !.dragLastX = x,
                        !.moves = @ + 1]
           /\ UNCHANGED <<physics, sheets>>

HandlePointerMove(hit, x, y, dt) ==
  /\ ctl.isDragging => ctl.moves < MaxMoves
  /\ UNCHANGED call
  /\ IF ~ctl.isDragging THEN HoverMove(hit) ELSE DragMove(x, y, dt)

HandlePointerUp ==
  /\ UNCHANGED call
  /\ IF ~ctl.isDragging THEN UNCHANGED <<sm, physics, sheets, ctl>>
     ELSE LET c0 == [ctl EXCEPT !.isDragging = FALSE, !.dragSide = Null,
                                !.hasExceededThreshold = FALSE,
                                !.moves = 0, !.updates = 0]
          IN  IF sm.state \notin DraggingStates
              THEN /\ ctl' = c0
                   /\ UNCHANGED <<sm, physics, sheets>>
              ELSE LET shouldComplete == ShouldComplete(EndDragProgress(sm))
                       m1 == EndDrag(sm)
                       n == SetStateNotify(c0, sheets, sm.state, m1.state)
                       velocityComplete ==
                         VelocityComplete(n.ctl.dragVelocity,
                                          n.ctl.turnDirection, n.ctl.dragFeel)
                   IN  /\ sm' = m1
                       /\ sheets' = n.sheets
                       /\ physics' = IF shouldComplete \/ velocityComplete
                                     THEN Release(physics, Unit, 0)
                                     ELSE Release(physics, 0, 0)
                       /\ ctl' = StartAnimationLoop(n.ctl)

\* turnPageForward / turnPageBackward accepting the turn in every state in
\* which nothing moves, the hover states included: a fault C39 has to notice
TurnPageAcceptedWhileHovering(direction) ==
  /\ sm.state \notin BusyStates
  /\ IF direction = "forward" THEN CanTurnForward(sm) ELSE CanTurnBackward(sm)

\* the value turnPageForward / turnPageBackward returns
TurnPageAccepted(direction) ==
  /\ sm.state = IDLE
  /\ IF direction = "forward" THEN CanTurnForward(sm) ELSE CanTurnBackward(sm)

\* body of turnPageForward (direction "forward") and turnPageBackward
ProgrammaticTurn(direction) ==
  IF ~TurnPageAccepted(direction)
  THEN UNCHANGED <<sm, physics, sheets, ctl>>
  ELSE LET m1 == TurnPage(sm, direction)
           n == SetStateNotify(ctl, sheets, sm.state, m1.state)
       IN  /\ sm' = m1
           /\ sheets' = n.sheets
           /\ physics' = Release(SetPosition(physics, 0), Unit, ScriptedVelocity)
           /\ ctl' = StartAnimationLoop(n.ctl)

TurnPageForward ==
  /\ UNCHANGED call
  /\ ProgrammaticTurn("forward")

TurnPageBackward ==
  /\ UNCHANGED call
  /\ ProgrammaticTurn("backward")

HandleKeyDown(key) ==
  /\ UNCHANGED call
  /\ IF key \in {"ArrowRight", " "} THEN ProgrammaticTurn("forward")
     ELSE IF key = "ArrowLeft" THEN ProgrammaticTurn("backward")
     ELSE UNCHANGED <<sm, physics, sheets, ctl>>

\* animationLoop reshaping the sheet to the position before the step
AnimationLoopReshapesFirst(deltaTime) ==
  /\ ctl.animationFrame
  /\ UNCHANGED call
  /\ LET state == sm.state
         ph1 == Step(physics, deltaTime)
         progress == ph1.position
         sh1 == IF ctl.turningPage # Null
                THEN SetProgress(sheets, ctl.turningPage, physics.position)
                ELSE sheets
     IN  /\ physics' = ph1
         /\ IF IsAtRest(ph1)
            THEN LET completedTurn == progress > Half
                     m1 == IF state = ANIMATING_FORWARD
                             THEN CompleteAnimation(sm, "forward")
                           ELSE IF state = ANIMATING_BACKWARD
                             THEN CompleteAnimation(sm, "backward")
                           ELSE IF state = SETTLING /\ completedTurn
                             THEN CompleteAnimation(sm,
                                    IF ctl.turnDirection = "forward"
                                    THEN "forward" ELSE "backward")
                           ELSE IF state = SETTLING
                             THEN CompleteSettling(sm)
                           ELSE sm
                     n == SetStateNotify(ctl, sh1, sm.state, m1.state)
                 IN  /\ sm' = m1
                     /\ sheets' = n.sheets
                     /\ ctl' = StopAnimationLoop(n.ctl)
            ELSE /\ sheets' = sh1
                 /\ UNCHANGED <<sm, ctl>>

\* one delivered animation frame; deltaTime is the time since lastTime
AnimationLoop(deltaTime) ==
  /\ ctl.animationFrame
  /\ UNCHANGED call
  /\ LET state == sm.state
         ph1 == Step(physics, deltaTime)
         progress == ph1.position
         sh1 == IF ctl.turningPage # Null
                THEN SetProgress(sheets, ctl.turningPage, progress)
                ELSE sheets
     IN  /\ physics' = ph1
         /\ IF IsAtRest(ph1)
            THEN LET completedTurn == progress > Half
                     m1 == IF state = ANIMATING_FORWARD
                             THEN CompleteAnimation(sm, "forward")
                           ELSE IF state = ANIMATING_BACKWARD
                             THEN CompleteAnimation(sm, "backward")
                           ELSE IF state = SETTLING /\ completedTurn
                             THEN CompleteAnimation(sm,
                                    IF ctl.turnDirection = "forward"
                                    THEN "forward" ELSE "backward")
                           ELSE IF state = SETTLING
                             THEN CompleteSettling(sm)
                           ELSE sm
                     n == SetStateNotify(ctl, sh1, sm.state, m1.state)
                 IN  /\ sm' = m1
                     /\ sheets' = n.sheets
                     /\ ctl' = StopAnimationLoop(n.ctl)
            ELSE /\ sheets' = sh1
                 /\ UNCHANGED <<sm, ctl>>

\* update(time) of the render loop while a drag is held; delta is the time
\* since the previous update.  In every other state update changes nothing.
Update(delta) ==
  /\ sm.state \in DraggingStates
  /\ ctl.updates < MaxUpdates
  /\ UNCHANGED call
  /\ LET alpha == SmoothingAlpha(ctl.dragFeel, delta)
         current == ctl.dragCurrentProgress +
                    Quot((ctl.dragTargetProgress - ctl.dragCurrentProgress) * alpha,
                         1000)
     IN  /\ ctl' = [ctl EXCEPT !.dragCurrentProgress = current,
                               !.updates = @ + 1]
         /\ physics' = SetPosition(physics, current)
         /\ sheets' = IF ctl.turningPage # Null
                      THEN SetProgress(sheets, ctl.turningPage, current)
                      ELSE sheets
         /\ UNCHANGED sm

\* the host page configures the book between gestures
HostSetTotalPages(total) ==
  /\ sm.state \notin BusyStates
  /\ UNCHANGED call
  /\ sm' = SetTotalPages(sm, total)
  /\ UNCHANGED <<physics, sheets, ctl>>

HostSetCurrentPage(page) ==
  /\ sm.state \notin BusyStates
  /\ UNCHANGED call
  /\ sm' = SetCurrentPage(sm, page)
  /\ UNCHANGED <<physics, sheets, ctl>>

HostSetPageStep(step) ==
  /\ sm.state \notin BusyStates
  /\ UNCHANGED call
  /\ sm' = SetPageStep(sm, step)
  /\ UNCHANGED <<physics, sheets, ctl>>

HostSetDragFeel(feel) ==
  /\ sm.state \notin BusyStates
  /\ UNCHANGED call
  /\ ctl' = [ctl EXCEPT !.dragFeel = feel]
  /\ UNCHANGED <<sm, physics, sheets>>

----------------------------------------------------------------------------
(* Spec: the controller *)

Init ==
  /\ sm = NewStateMachine(1)
  /\ physics = NewPhysics(ControllerSpringK, ControllerDamping)
  /\ sheets = [left |-> NewSheet("left"), right |-> NewSheet("right")]
  /\ ctl \in {NewController(f) : f \in DragFeels}
  /\ call = CallRecord("new", None, None, 0)
  /\ NoDocument

\* a pointer-down: <<primary button, answer of canStartDrag, hit>>.  The
\* answer is only asked once a page is hit, and a secondary button returns
\* before the hit is looked at.
DownInputs ==
  {<<TRUE, TRUE, hit>> : hit \in Hits}
    \cup {<<TRUE, FALSE, hit>> : hit \in Hits \ {NoHit}}
    \cup {<<FALSE, FALSE, NoHit>>}

\* the controller on its own: no callback of the page is attached
ControllerOnly == UNCHANGED <<cache, pipe, limiter>>

PointerDown ==
  /\ \E d \in DownInputs, x \in DownXs, y \in PointerYs :
       HandlePointerDown(d[1], d[3], x, y, d[2])
  /\ ControllerOnly

\* a move sample: while no drag is held only the hit matters, while one is
\* held only the pointer position and the sample time do
PointerMove ==
  /\ IF ctl.isDragging
     THEN \E x \in MoveXs, y \in PointerYs, dt \in MoveDts :
            HandlePointerMove(NoHit, x, y, dt)
     ELSE \E hit \in Hits, y \in PointerYs : HandlePointerMove(hit, 0, y, 0)
  /\ ControllerOnly

PointerUp == HandlePointerUp /\ ControllerOnly

KeyDown == (\E key \in Keys : HandleKeyDown(key)) /\ ControllerOnly

TurnForward == TurnPageForward /\ ControllerOnly

TurnBackward == TurnPageBackward /\ ControllerOnly

Frame == (\E dt \in FrameDts : AnimationLoop(dt)) /\ ControllerOnly

RenderUpdate == (\E delta \in UpdateDeltas : Update(delta)) /\ ControllerOnly

HostTotalPages ==
  (\E total \in 1..MaxPages : HostSetTotalPages(total)) /\ ControllerOnly

HostCurrentPage ==
  (\E page \in 0..(MaxPages - 1) : HostSetCurrentPage(page)) /\ ControllerOnly

HostPageStep == (\E step \in {1, 2} : HostSetPageStep(step)) /\ ControllerOnly

HostDragFeel ==
  (\E feel \in DragFeels : HostSetDragFeel(feel)) /\ ControllerOnly

Next ==
  \/ PointerDown
  \/ PointerMove
  \/ PointerUp
  \/ KeyDown
  \/ TurnForward
  \/ TurnBackward
  \/ Frame
  \/ RenderUpdate
  \/ HostTotalPages
  \/ HostCurrentPage
  \/ HostPageStep
  \/ HostDragFeel

Spec == Init /\ [][Next]_vars

\* A requested animation frame is delivered: weak fairness of Frame, with
\* ENABLED <<Frame>>_vars written out as the request flag that
\* requestAnimationFrame sets.  The two agree as long as a delivered frame
\* changes something, which FrameAdvances states: the frame either stops the
\* loop or moves the physics.
FrameRequested == ctl.animationFrame

FrameAdvances ==
  \A dt \in FrameDts :
    \/ IsAtRest(Step(physics, dt))
    \/ Step(physics, dt) # physics

FairSpec == Spec /\ ([]<>(~FrameRequested) \/ []<><<Frame>>_vars)

----------------------------------------------------------------------------
(* SpecCallback: the controller with a page-changed callback that turns    *)
(* the next page before it returns (setPageChangeCallback takes any        *)
(* function of the host)                                                   *)

\* animationLoop finishing a turn while onPageChange calls turnPageForward
\* (direction "forward") or turnPageBackward, and the call is accepted:
\* the callback runs inside the frame, before stopAnimationLoop
AnimationLoopTurningAgain(deltaTime, direction) ==
  /\ ctl.animationFrame
  /\ UNCHANGED call
  /\ LET state == sm.state
         ph1 == Step(physics, deltaTime)
         progress == ph1.position
         sh1 == IF ctl.turningPage # Null
                THEN SetProgress(sheets, ctl.turningPage, progress)
                ELSE sheets
         completes == \/ state \in AnimatingStates
                      \/ state = SETTLING /\ progress > Half
         m1 == CompleteAnimation(sm,
                 IF state = ANIMATING_FORWARD THEN "forward"
                 ELSE IF state = ANIMATING_BACKWARD THEN "backward"
                 ELSE IF ctl.turnDirection = "forward" THEN "forward"
                 ELSE "backward")
         n1 == SetStateNotify(ctl, sh1, sm.state, m1.state)
         accepted == /\ m1.state = IDLE
                     /\ IF direction = "forward" THEN CanTurnForward(m1)
                        ELSE CanTurnBackward(m1)
         m2 == TurnPage(m1, direction)
         n2 == SetStateNotify(n1.ctl, n1.sheets, m1.state, m2.state)
     IN  /\ IsAtRest(ph1)
         /\ completes
         /\ accepted
         /\ sm' = m2
         /\ sheets' = n2.sheets
         /\ physics' = Release(SetPosition(ph1, 0), Unit, ScriptedVelocity)
         /\ ctl' = StopAnimationLoop(StartAnimationLoop(n2.ctl))

FrameTurningAgain ==
  /\ \E dt \in FrameDts, direction \in {"forward", "backward"} :
       AnimationLoopTurningAgain(dt, direction)
  /\ ControllerOnly

NextCallback == Next \/ FrameTurningAgain

SpecCallback == Init /\ [][NextCallback]_vars

----------------------------------------------------------------------------
(* SpecSM: every public method of the state machine called directly, and   *)
(* the controller's turnPageForward / turnPageBackward                     *)

SMSides == {"left", "right"}
SMDirections == {"forward", "backward"}
\* progress values handed to updateDrag: below, at and above one half, and
\* values updateDrag clamps
SMProgresses ==
  {-(Unit \div 10), 0, Unit \div 5, 49 * (Unit \div 100), Half,
   51 * (Unit \div 100), Unit, Unit + Unit \div 10}

ControllerIdle ==
  /\ physics = NewPhysics(ControllerSpringK, ControllerDamping)
  /\ sheets = [left |-> NewSheet("left"), right |-> NewSheet("right")]
  /\ ctl = NewController("snappy")

InitSM ==
  /\ \E total \in 1..MaxPages : sm = NewStateMachine(total)
  /\ ControllerIdle
  /\ call = CallRecord("new", None, None, 0)
  /\ NoDocument

SMOnly == UNCHANGED <<physics, sheets, ctl, cache, pipe, limiter>>

SMSetCurrentPage ==
  \E page \in -1..MaxPages :
    /\ sm' = SetCurrentPage(sm, page)
    /\ Called("setCurrentPage", None, None)
    /\ SMOnly

SMSetTotalPages ==
  \E total \in 1..MaxPages :
    /\ sm' = SetTotalPages(sm, total)
    /\ Called("setTotalPages", None, None)
    /\ SMOnly

SMSetPageStep ==
  \E step \in 0..2 :
    /\ sm' = SetPageStep(sm, step)
    /\ Called("setPageStep", None, None)
    /\ SMOnly

SMHoverCorner ==
  \E side \in SMSides :
    /\ sm' = HoverCorner(sm, side)
    /\ Called("hoverCorner", side, None)
    /\ SMOnly

SMLeaveCorner ==
  /\ sm' = LeaveCorner(sm)
  /\ Called("leaveCorner", None, None)
  /\ SMOnly

SMStartDrag ==
  \E side \in SMSides, x \in DownXs \cup {0}, y \in PointerYs :
    /\ sm' = StartDrag(sm, x, y, side)
    /\ Called("startDrag", side, Returned(StartDragResult(sm, side)))
    /\ SMOnly

SMUpdateDrag ==
  \E progress \in SMProgresses, x \in DownXs, y \in PointerYs :
    /\ sm' = UpdateDrag(sm, x, y, progress)
    /\ Called("updateDrag", None, None)
    /\ SMOnly

\* endDrag returns {shouldComplete, direction}
SMEndDrag ==
  /\ sm' = EndDrag(sm)
  /\ Called("endDrag", EndDragDirection(sm),
            Returned(ShouldComplete(EndDragProgress(sm))))
  /\ SMOnly

SMCompleteAnimation ==
  \E direction \in SMDirections :
    /\ sm' = CompleteAnimation(sm, direction)
    /\ Called("completeAnimation", direction, None)
    /\ SMOnly

SMCompleteSettling ==
  /\ sm' = CompleteSettling(sm)
  /\ Called("completeSettling", None, None)
  /\ SMOnly

SMTurnPage ==
  \E direction \in SMDirections :
    /\ sm' = TurnPage(sm, direction)
    /\ Called("turnPage", direction, Returned(TurnPageResult(sm, direction)))
    /\ SMOnly

\* the controller's turnPageForward / turnPageBackward, which hand the turn
\* to turnPage and report what it answered
SMTurnPageForward ==
  /\ ProgrammaticTurn("forward")
  /\ ControllerOnly
  /\ Called("turnPageForward", "forward", Returned(TurnPageAccepted("forward")))

SMTurnPageBackward ==
  /\ ProgrammaticTurn("backward")
  /\ ControllerOnly
  /\ Called("turnPageBackward", "backward",
            Returned(TurnPageAccepted("backward")))

NextSM ==
  \/ SMSetCurrentPage
  \/ SMSetTotalPages
  \/ SMSetPageStep
  \/ SMHoverCorner
  \/ SMLeaveCorner
  \/ SMStartDrag
  \/ SMUpdateDrag
  \/ SMEndDrag
  \/ SMCompleteAnimation
  \/ SMCompleteSettling
  \/ SMTurnPage
  \/ SMTurnPageForward
  \/ SMTurnPageBackward

SpecSM == InitSM /\ [][NextSM]_vars

----------------------------------------------------------------------------
(* SpecPhysics: the physics object alone, every public method called directly *)

PhPositions ==
  {-(Unit \div 10), 0, Unit \div 50, Half, Unit - Unit \div 50, Unit,
   Unit + Unit \div 10}
PhTargets == {0, Unit, 3 * Half}
PhVelocities == {-ScriptedVelocity, 0, ScriptedVelocity}
\* deltaTime of a step in ms: a frame stamped before lastTime, no time at all,
\* a 60 Hz frame, the cap, a frame longer than the cap, and a hitch of a second
PhStepDts == {-5, 0, 16, MaxStepMs, 40, 1000}

InitPhysics ==
  /\ physics \in {NewPhysics(DefaultSpringK, DefaultDamping),
                   NewPhysics(ControllerSpringK, ControllerDamping)}
  /\ sm = NewStateMachine(1)
  /\ sheets = [left |-> NewSheet("left"), right |-> NewSheet("right")]
  /\ ctl = NewController("snappy")
  /\ call = CallRecord("new", None, None, 0)
  /\ NoDocument

PhOnly == UNCHANGED <<sm, sheets, ctl, cache, pipe, limiter>>

PhSetPosition ==
  \E position \in PhPositions :
    /\ physics' = SetPosition(physics, position)
    /\ Called("setPosition", position, None)
    /\ PhOnly

PhSetTarget ==
  \E target \in PhTargets :
    /\ physics' = SetTarget(physics, target)
    /\ call' = CallRecord("setTarget", target, None, call.steps)
    /\ PhOnly

PhRelease ==
  \E target \in PhTargets, initialVelocity \in PhVelocities :
    /\ physics' = Release(physics, target, initialVelocity)
    /\ call' = CallRecord("release", target, None, call.steps)
    /\ PhOnly

PhReset ==
  /\ physics' = Reset(physics)
  /\ Called("reset", None, None)
  /\ PhOnly

PhStep ==
  \E deltaTime \in PhStepDts :
    /\ call.steps < MaxSteps
    /\ physics' = Step(physics, deltaTime)
    /\ call' = CallRecord("step", deltaTime, None, call.steps + 1)
    /\ PhOnly

NextPhysics ==
  \/ PhSetPosition
  \/ PhSetTarget
  \/ PhRelease
  \/ PhReset
  \/ PhStep

SpecPhysics == InitPhysics /\ [][NextPhysics]_vars

----------------------------------------------------------------------------
(* SpecSettle: the physics object released somewhere in [0,1] toward 0 or 1 and
   then stepped with one fixed frame time until it reports rest, as
   animationLoop does *)

SettlePositions ==
  {0, Unit \div 100, Unit \div 4, Half, 3 * (Unit \div 4),
   Unit - Unit \div 100, Unit}
SettleTargets == {0, Unit}
\* deltaTime in ms: 125 Hz, 60 Hz, the cap, and a frame longer than the cap
SettleDts == {8, 16, MaxStepMs, 40}

InitSettle ==
  /\ \E k \in {<<DefaultSpringK, DefaultDamping>>,
                <<ControllerSpringK, ControllerDamping>>},
        position \in SettlePositions, target \in SettleTargets,
        velocity \in PhVelocities :
        physics = Release(SetPosition(NewPhysics(k[1], k[2]), position),
                          target, velocity)
  /\ sm = NewStateMachine(1)
  /\ sheets = [left |-> NewSheet("left"), right |-> NewSheet("right")]
  /\ ctl = NewController("snappy")
  /\ call = CallRecord("new", None, None, 0)
  /\ NoDocument

\* one more step(deltaTime) with the frame time of the steps before it
SettleStep ==
  \E deltaTime \in SettleDts :
    /\ call.op = "step" => deltaTime = call.arg
    /\ ~IsAtRest(physics)
    /\ physics' = Step(physics, deltaTime)
    /\ call' = CallRecord("step", deltaTime, None, 0)
    /\ PhOnly

SpecSettle == InitSettle /\ [][SettleStep]_vars /\ WF_vars(SettleStep)

----------------------------------------------------------------------------
(* SpecCache: one TextureCache, its methods called as the texture loaders call
   them *)

MaxCacheLimit == 2
MaxClock == 3
CacheKeys == {"p1", "p2", "p3"}

InitCache ==
  /\ \E limit \in 1..MaxCacheLimit : cache = NewTextureCache(limit)
  /\ pipe = Null
  /\ limiter = createLimiter(MaxConcurrentRasterize)
  /\ sm = NewStateMachine(1)
  /\ ControllerIdle
  /\ call = CallRecord("new", None, None, 0)

CacheOnly == UNCHANGED <<sm, physics, sheets, ctl, pipe, limiter>>

\* Date.now() at a call: the time of the call before it, or later
Clock(c) == {[c EXCEPT !.now = t] : t \in {c.now, Min(c.now + 1, MaxClock)}}

CacheCallGet ==
  \E key \in CacheKeys, c \in Clock(cache) :
    /\ cache' = CacheGet(c, key)
    /\ Called("get", key, Returned(key \in ItemKeys(cache.items)))
    /\ CacheOnly

\* requestAndLoadPage stores {...loaded, key: cacheKey}: lastUsed is the
\* Date.now() of loadTexture on the rasterize path and missing on the
\* preprocessed path
CacheCallSet ==
  \E key \in CacheKeys, c \in Clock(cache), lastUsed \in {Undefined, cache.now} :
    /\ cache' \in CacheSet(c, key, CachedTexture(key, lastUsed))
    /\ Called("set", <<key, lastUsed>>, None)
    /\ CacheOnly

CacheCallDelete ==
  \E key \in CacheKeys :
    /\ cache' = CacheDelete(cache, key)
    /\ Called("delete", key, None)
    /\ CacheOnly

CacheCallClear ==
  /\ cache' = CacheClear(cache)
  /\ Called("clear", None, None)
  /\ CacheOnly

NextCache ==
  \/ CacheCallGet
  \/ CacheCallSet
  \/ CacheCallDelete
  \/ CacheCallClear

SpecCache == InitCache /\ [][NextCache]_vars

----------------------------------------------------------------------------
(* SpecBook: the controller wired to the texture pipeline as main.ts wires it,
   a document uploaded, the network answering or failing each request *)

MaxDocPages == 4
MaxSpreadRequests == 2
MaxUnderRequests == 3
MaxFailures == 1
MaxTasks == 3
MaxDocuments == 2
Layouts == {"single", "double"}
\* the page number typed into the page input: the first page, the last page
\* and the one after the last
RenderPages == {1, MaxDocPages, MaxDocPages + 1}
\* a press on the right page's outer corner, one on the left page's outer
\* edge, one in the middle of the right page and one beside the book
BookHits ==
  {[page |-> "right", u |-> 95, v |-> 95, width |-> 100],
   [page |-> "left", u |-> 5, v |-> 50, width |-> 100],
   [page |-> "right", u |-> 50, v |-> 50, width |-> 100],
   NoHit}
BookFrameDts == {MaxStepMs}

InitBook ==
  /\ \E layout \in Layouts :
       /\ pipe = NewPipeline(layout, MaxDocPages)
       /\ sm = SetPageStep(NewStateMachine(1),
                           IF layout = "double" THEN 2 ELSE 1)
  /\ ControllerIdle
  /\ call = CallRecord("new", None, None, 0)
  /\ cache = NewTextureCache(PageRenderCacheLimit)
  /\ limiter = createLimiter(MaxConcurrentRasterize)

\* flipbookController.setTotalPages / setCurrentPage as handleRender calls them
RECURSIVE ControllerCalled(_, _)
ControllerCalled(m, calls) ==
  IF calls = << >> THEN m
  ELSE ControllerCalled(
         SetCurrentPage(SetTotalPages(m, Head(calls)[1]), Head(calls)[2]),
         Tail(calls))

\* the pipeline ran an event to its end: what it left for the controller is
\* delivered
PipelineRan(p) ==
  /\ pipe' = [p EXCEPT !.controllerCalls = << >>]
  /\ sm' = ControllerCalled(sm, p.controllerCalls)
  /\ UNCHANGED <<physics, sheets, ctl, call, cache, limiter>>

\* the user acts while the request counters and the number of suspended calls
\* are below their bounds
RoomForRequests ==
  /\ pipe.spreadRequestId < MaxSpreadRequests
  /\ pipe.underRequestId < MaxUnderRequests
  /\ Len(pipe.tasks) < MaxTasks

\* a click on Render
Render ==
  \E pageNumber \in RenderPages :
    /\ RoomForRequests
    /\ PipelineRan(Drain(handleRender(pipe, pageNumber)))

\* the upload of another document of as many pages answers
Upload ==
  /\ pipe.documentId < MaxDocuments
  /\ PipelineRan(handleUpload(pipe, MaxDocPages))

\* the network answers a request
FetchDone ==
  \E key \in DOMAIN pipe.fetches :
    /\ PipelineRan(fetchSucceeds(pipe, key))

\* the network fails a request
FetchError ==
  \E key \in DOMAIN pipe.fetches :
    /\ pipe.failures < MaxFailures
    /\ PipelineRan(fetchFails(pipe, key))

HitDirection(hit) ==
  IF HitSide(sheets, hit) = "right" THEN "forward" ELSE "backward"

\* handlePointerDown with the callbacks of the page
BookPointerDownAt(hit, x, y) ==
  LET asked == PointerDownStartsDrag(TRUE, hit, TRUE)
      ready == canStartDrag(pipe, HitDirection(hit))
  IN  /\ HandlePointerDown(TRUE, hit, x, y, ready)
      /\ pipe' = IF ~asked THEN pipe
                 ELSE IF ready THEN onTurnStart(pipe, HitDirection(hit))
                 ELSE dragRefused(pipe, HitDirection(hit))
      /\ UNCHANGED <<cache, limiter>>

BookPointerDown ==
  \E hit \in BookHits, x \in DownXs, y \in PointerYs :
    /\ RoomForRequests
    /\ BookPointerDownAt(hit, x, y)

BookPointerUp == HandlePointerUp /\ UNCHANGED <<cache, pipe, limiter>>

BookTurn ==
  \E direction \in SMDirections :
    /\ RoomForRequests
    /\ UNCHANGED call
    /\ ProgrammaticTurn(direction)
    /\ pipe' = IF TurnPageAccepted(direction) THEN onTurnStart(pipe, direction)
               ELSE pipe
    /\ UNCHANGED <<cache, limiter>>

\* animationLoop calling onPageChange at the end of a snap-back as well
PageChangeFiresAtEveryRest(deltaTime) ==
  /\ IsAtRest(Step(physics, deltaTime))
  /\ sm.state \in AnimatingStates \cup {SETTLING}

\* the frame ends a turn and animationLoop calls onPageChange
PageChangeFires(deltaTime) ==
  LET ph1 == Step(physics, deltaTime)
  IN  /\ IsAtRest(ph1)
      /\ \/ sm.state \in AnimatingStates
         \/ sm.state = SETTLING /\ ph1.position > Half

BookFrame ==
  \E dt \in BookFrameDts :
    /\ AnimationLoop(dt)
    /\ pipe' = IF PageChangeFires(dt) THEN onPageChange(pipe, sm'.currentPage)
               ELSE pipe
    /\ UNCHANGED <<cache, limiter>>

NextBook ==
  \/ Render
  \/ FetchDone
  \/ FetchError
  \/ BookPointerDown
  \/ BookPointerUp
  \/ BookTurn
  \/ BookFrame

SpecBook == InitBook /\ [][NextBook]_vars

\* FairBook: SpecBook with the browser's guarantee that a requested animation
\* frame is eventually delivered
FairBook == SpecBook /\ ([]<>(~FrameRequested) \/ []<><<BookFrame>>_vars)

\* SpecBookUpload: a further document is uploaded while the book is in use:
\* rendered, dragged and turned by hand (the turns started from the keyboard
\* and the buttons, which start the same loads as a drag, are left to SpecBook)
NextBookUpload ==
  \/ Render
  \/ Upload
  \/ FetchDone
  \/ FetchError
  \/ BookPointerDown
  \/ BookPointerUp
  \/ BookFrame

SpecBookUpload == InitBook /\ [][NextBookUpload]_vars

----------------------------------------------------------------------------
(* SpecLayout: the controller with the page's layout handler.  Once a page *)
(* has been rendered, a change of the layout selection or of the window    *)
(* size runs updateLayout and setPageStep.                                 *)

\* PageMesh.setSide: the side is stored, the geometry rebuilt flat
setSide(sheet, side) == [sheet EXCEPT !.side = side, !.progress = 0]

\* the sheets after updateLayout(width, height, mode): double layout shows
\* both sheets on their own sides, single layout shows leftPage alone, as a
\* right page, and hides rightPage
updateLayout(sh, mode) ==
  IF mode = "double"
  THEN [left |-> setSide(sh.left, "left"), right |-> setSide(sh.right, "right")]
  ELSE [sh EXCEPT !.left = setSide(@, "right")]

\* mesh.visible of a sheet: only updateLayout writes it, and it hides
\* rightPage exactly when it puts leftPage on the right side
MeshVisible(sh, page) == page = "left" \/ sh.left.side = "left"

\* getPageHit looks at the visible sheets only
VisibleHits == {hit \in Hits : hit.page = Null \/ MeshVisible(sheets, hit.page)}

\* the change listener of layoutSelect and the resize listener of the window
LayoutChange ==
  /\ \E mode \in Layouts :
       /\ sheets' = updateLayout(sheets, mode)
       /\ sm' = SetPageStep(sm, IF mode = "double" THEN 2 ELSE 1)
  /\ UNCHANGED <<physics, ctl, call>>
  /\ ControllerOnly

LayoutPointerDown ==
  /\ \E hit \in VisibleHits, x \in DownXs, y \in PointerYs, ready \in BOOLEAN :
       HandlePointerDown(TRUE, hit, x, y, ready)
  /\ ControllerOnly

LayoutPointerMove ==
  /\ IF ctl.isDragging
     THEN \E x \in MoveXs, y \in PointerYs, dt \in MoveDts :
            HandlePointerMove(NoHit, x, y, dt)
     ELSE \E hit \in VisibleHits, y \in PointerYs :
            HandlePointerMove(hit, 0, y, 0)
  /\ ControllerOnly

NextLayout ==
  \/ LayoutChange
  \/ LayoutPointerDown
  \/ LayoutPointerMove
  \/ PointerUp
  \/ KeyDown
  \/ Frame
  \/ RenderUpdate
  \/ HostTotalPages
  \/ HostCurrentPage

SpecLayout == Init /\ [][NextLayout]_vars

----------------------------------------------------------------------------
(* SpecLimiter: requests of the /rasterize route passing the limiter       *)

InitLimiter ==
  /\ sm = NewStateMachine(1)
  /\ ControllerIdle
  /\ call = CallRecord("new", None, None, 0)
  /\ NoDocument

LimiterOnly == UNCHANGED <<sm, physics, sheets, ctl, call, cache, pipe>>

\* a request reaches await limiter.acquire()
RequestArrives ==
  /\ \E r \in 1..MaxRequests :
       /\ limiter.requests[r] = "new"
       /\ limiter' = acquire(limiter, r)
  /\ LimiterOnly

\* rasterizePage settles first (it resolves or throws)
RasterizeSettles ==
  /\ \E r \in 1..MaxRequests :
       /\ limiter.requests[r] = "rasterizing"
       /\ limiter' = raceSettled(limiter, r, "done")
  /\ LimiterOnly

\* the timer of config.rasterizeTimeoutMs fires first
RasterizeTimesOut ==
  /\ \E r \in 1..MaxRequests :
       /\ limiter.requests[r] = "rasterizing"
       /\ limiter' = raceSettled(limiter, r, "timedOut")
  /\ LimiterOnly

\* rasterizePage of a request that timed out comes to its end
AbandonedRasterizeEnds ==
  /\ \E r \in 1..MaxRequests :
       /\ limiter.requests[r] = "timedOut"
       /\ limiter' = [limiter EXCEPT !.requests[r] = "done"]
  /\ LimiterOnly

NextLimiter ==
  \/ RequestArrives
  \/ RasterizeSettles
  \/ RasterizeTimesOut
  \/ AbandonedRasterizeEnds

SpecLimiter == InitLimiter /\ [][NextLimiter]_vars

----------------------------------------------------------------------------
(* SpecDeform: the functions of dflipDeform.ts, which keep no state, each
   called once with arguments of its own *)

\* sheet angles in degrees, a little beyond both ends of [0,180]
CurveAngles == -15..195
MinClamps == {0, 20}
\* sheet angles whose sines the table has, flexibility in tenths (the page
\* mesh has 0.9), and the segments of a sheet (the page mesh has 60)
SheetAngles == {0, 30, 60, 90, 120, 150, 180}
Flexibilities == {0, 5, 9}
SheetSegments == {4, 6, 60}

InitDeform ==
  /\ physics = NewPhysics(DefaultSpringK, DefaultDamping)
  /\ sm = NewStateMachine(1)
  /\ sheets = [left |-> NewSheet("left"), right |-> NewSheet("right")]
  /\ ctl = NewController("snappy")
  /\ call = CallRecord("new", None, None, 0)
  /\ NoDocument

DeformCurveAngle ==
  \E isLeftTurn \in BOOLEAN, angleDeg \in CurveAngles,
     minClampDeg \in MinClamps :
    /\ call.op = "new"
    /\ Called("getCurveAngle", <<isLeftTurn, angleDeg, minClampDeg>>,
              getCurveAngle(isLeftTurn, angleDeg, minClampDeg))
    /\ UNCHANGED <<sm, physics, sheets, ctl, cache, pipe, limiter>>

\* a sheet is deformed at a sheet angle with the curve angle of either turn
\* direction, as applyDeform of the page mesh does for its side
DeformSheet ==
  \E sheetAngleDeg \in SheetAngles, isLeftTurn \in BOOLEAN,
     pageSide \in {-1, 1}, flexibility \in Flexibilities,
     segments \in SheetSegments :
    LET params == [segments |-> segments, sheetAngleDeg |-> sheetAngleDeg,
                   curveAngleDeg |-> getCurveAngle(isLeftTurn, sheetAngleDeg, 0),
                   flexibility |-> flexibility, pageSide |-> pageSide]
    IN  /\ call.op = "new"
        /\ Called("updateSheetGeometry", params, updateSheetGeometry(params))
        /\ UNCHANGED <<sm, physics, sheets, ctl, cache, pipe, limiter>>

NextDeform ==
  \/ DeformCurveAngle
  \/ DeformSheet

SpecDeform == InitDeform /\ [][NextDeform]_vars

----------------------------------------------------------------------------
(* Properties *)

\* the state an accepted programmatic turn enters, the sheet it turns and
\* the page it ends on
AnimatingState(direction) ==
  IF direction = "forward" THEN ANIMATING_FORWARD ELSE ANIMATING_BACKWARD

TurnedSheet(direction) == IF direction = "forward" THEN "right" ELSE "left"

PageAfter(m, direction) ==
  IF direction = "forward" THEN m.currentPage + m.pageStep
  ELSE m.currentPage - m.pageStep

TurnCall(direction) ==
  IF direction = "forward" THEN TurnPageForward ELSE TurnPageBackward

\* the drag data turnPage records for a programmatic turn
ScriptedDragData ==
  <<[startX |-> 0, startY |-> 0, currentX |-> 0, currentY |-> 0, progress |-> 0]>>

\* C1 (steps): turnPageForward() / turnPageBackward() accepted from IDLE puts
\* the machine in ANIMATING_* with a frame requested; while it is ANIMATING_*
\* the page, the step and the page count stay as they were; and the only way
\* out of ANIMATING_* is to IDLE with the page moved by one page step in that
\* direction, the drag data cleared and the turned sheet back at progress 0.
C1_TurnStep ==
  \A direction \in SMDirections :
    /\ (TurnCall(direction) /\ TurnPageAccepted(direction)) =>
         /\ sm.state = IDLE
         /\ sm'.state = AnimatingState(direction)
         /\ sm'.currentPage = sm.currentPage
         /\ ctl'.animationFrame
    /\ (sm.state = AnimatingState(direction) /\ sm'.state = sm.state) =>
         /\ sm'.currentPage = sm.currentPage
         /\ sm'.pageStep = sm.pageStep
         /\ sm'.totalPages = sm.totalPages
    /\ (sm.state = AnimatingState(direction) /\ sm'.state # sm.state) =>
         /\ sm'.state = IDLE
         /\ sm'.currentPage = PageAfter(sm, direction)
         /\ sm'.dragData = NoDrag
         /\ sheets'[TurnedSheet(direction)].progress = 0

HeldForwardDrag(progress) ==
  /\ ctl.isDragging
  /\ sm.state = DRAGGING_FORWARD
  /\ EndDragProgress(sm) = progress
  /\ ctl.dragVelocity = 0

\* C2 (steps): releasing a forward drag held at progress 0.2 with zero
\* velocity gives SETTLING with physics target 0 and a frame requested; while
\* SETTLING toward 0 the page and the target stay; and SETTLING toward 0 is
\* left only for IDLE, with the physics at rest at position 0 and the page
\* unchanged.
C2_SnapBackStep ==
  /\ (PointerUp /\ HeldForwardDrag(Unit \div 5)) =>
       /\ sm'.state = SETTLING
       /\ physics'.target = 0
       /\ sm'.currentPage = sm.currentPage
       /\ ctl'.animationFrame
  /\ (sm.state = SETTLING /\ physics.target = 0 /\ sm'.state = SETTLING) =>
       /\ physics'.target = 0
       /\ sm'.currentPage = sm.currentPage
  /\ (sm.state = SETTLING /\ physics.target = 0 /\ sm'.state # SETTLING) =>
       /\ sm'.state = IDLE
       /\ IsAtRest(physics') /\ physics'.position = 0
       /\ sm'.currentPage = sm.currentPage

NotTurnable(m, direction) ==
  IF direction = "forward" THEN m.currentPage + m.pageStep >= m.totalPages
  ELSE m.currentPage - m.pageStep < 0

TurnMethod(direction) ==
  IF direction = "forward" THEN "turnPageForward" ELSE "turnPageBackward"

SameTurnState ==
  /\ sm'.state = sm.state
  /\ sm'.dragData = sm.dragData
  /\ sm'.currentPage = sm.currentPage

\* C3: a turn in a direction that cannot be turned is refused: startDrag on
\* that side, turnPage in that direction and turnPageForward /
\* turnPageBackward return false and leave the state, the drag data and the
\* current page as they were.
C3_NotTurnableRefused ==
  [][\A direction \in SMDirections :
       NotTurnable(sm, direction) =>
         /\ (call'.op = "startDrag" /\ call'.arg = TurnedSheet(direction)) =>
              (call'.ret = "false" /\ SameTurnState)
         /\ (call'.op \in {"turnPage", TurnMethod(direction)}
               /\ call'.arg = direction) =>
              (call'.ret = "false" /\ SameTurnState)]_vars

\* C3 witness: on a 1-page book turnPageForward() returned false
C3_Witness ==
  /\ call.op = "turnPageForward"
  /\ call.ret = "false"
  /\ sm.totalPages = 1
  /\ sm.state = IDLE
  /\ ~CanTurnForward(sm)

\* C4: startDrag called while the state is DRAGGING_*, ANIMATING_* or SETTLING
\* leaves the state and the recorded drag data exactly as they were.
C4_SecondStartDragIgnored ==
  [][(call'.op = "startDrag" /\ sm.state \in BusyStates) =>
       (sm'.state = sm.state /\ sm'.dragData = sm.dragData)]_vars

\* C8: endDrag() reports shouldComplete = true exactly when the recorded
\* progress is strictly greater than one half: 0.49 gives false, 0.51 gives
\* true and exactly 0.5 gives false.
C8_ShouldCompleteStrictlyAboveHalf ==
  [][call'.op = "endDrag" =>
       /\ (call'.ret = "true") <=> (EndDragProgress(sm) > Half)
       /\ EndDragProgress(sm) = 49 * (Unit \div 100) => call'.ret = "false"
       /\ EndDragProgress(sm) = 51 * (Unit \div 100) => call'.ret = "true"
       /\ EndDragProgress(sm) = Half => call'.ret = "false"]_vars

\* C8 witness: endDrag has answered shouldComplete = false for a drag whose
\* recorded progress is exactly one half
C8_Witness ==
  /\ call.op = "endDrag"
  /\ call.ret = "false"
  /\ sm.dragData # NoDrag
  /\ EndDragProgress(sm) = Half
  /\ sm.state = SETTLING

Sheets == {"left", "right"}

\* C5: a pointer-down received while the state is DRAGGING_*, ANIMATING_* or
\* SETTLING changes neither the state machine, the physics, the sheets nor
\* the controller's turn; turnPageForward / turnPageBackward return false in
\* those states and change nothing either; and never more than one sheet is
\* turning.
C5_NoStartWhileBusy ==
  /\ [][sm.state \in BusyStates =>
          /\ PointerDown => UNCHANGED <<sm, physics, sheets, ctl>>
          /\ \A direction \in SMDirections :
               /\ ~TurnPageAccepted(direction)
               /\ TurnCall(direction) => UNCHANGED <<sm, physics, sheets, ctl>>]_vars
  /\ [](Cardinality({p \in Sheets : sheets[p].isAnimating}) <= 1)

\* C5 witness: a programmatic turn is in flight (the sheet has left the
\* start), the very state in which pointer-downs and turn calls arrive
C5_Witness ==
  /\ sm.state = ANIMATING_BACKWARD
  /\ physics.position > 0 /\ physics.position < Unit
  /\ sheets.left.isAnimating
  /\ ctl.animationFrame

\* release velocity measured in the direction of the turn (a forward turn
\* drags toward smaller x), in 1/1000 pixel per ms
VelocityInTurnDirection ==
  IF sm.state = DRAGGING_FORWARD THEN -ctl.dragVelocity ELSE ctl.dragVelocity

\* the release decision as the claims state it, for the drag being held
ReleaseCompletes ==
  \/ EndDragProgress(sm) > Half
  \/ VelocityInTurnDirection > VelocityThreshold(ctl.dragFeel)

HeldDrag == ctl.isDragging /\ sm.state \in DraggingStates

\* C6: on release of a drag, if progress > 0.5 or the release velocity in the
\* turn direction exceeds the threshold of the drag feel, the state becomes
\* ANIMATING_* of the drag's direction with physics target 1; otherwise it
\* becomes SETTLING with physics target 0.
C6_ReleaseDecision ==
  [][(PointerUp /\ HeldDrag) =>
       IF ReleaseCompletes
       THEN /\ sm'.state = AnimatingState(EndDragDirection(sm))
            /\ physics'.target = Unit
       ELSE /\ sm'.state = SETTLING
            /\ physics'.target = 0]_vars

\* the turn in flight: its direction and whether the physics runs to the end
TurnInFlight == sm.state \in AnimatingStates \cup {SETTLING}

\* C7 (steps): a release sends the physics to 1 exactly when the release
\* decision holds and to 0 otherwise, the page still the one before the
\* gesture; while the turn is in flight its target, direction, page and page
\* step stay; and when it ends the page has moved by one page step in the
\* drag's direction if the physics ran to 1 and is unchanged if it ran to 0.
C7_GestureStep ==
  /\ (PointerUp /\ HeldDrag) =>
       /\ physics'.target = (IF ReleaseCompletes THEN Unit ELSE 0)
       /\ TurnInFlight'
       /\ ctl'.turnDirection = EndDragDirection(sm)
       /\ sm'.currentPage = sm.currentPage
       /\ ctl'.animationFrame
  /\ HeldDrag => sm'.currentPage = sm.currentPage
  /\ (TurnInFlight /\ TurnInFlight') =>
       /\ physics'.target = physics.target
       /\ ctl'.turnDirection = ctl.turnDirection
       /\ sm'.currentPage = sm.currentPage
       /\ sm'.pageStep = sm.pageStep
  /\ (TurnInFlight /\ ~TurnInFlight') =>
       /\ sm'.state = IDLE
       /\ physics.target \in {0, Unit}
       /\ sm'.currentPage =
            (IF physics.target = Unit THEN PageAfter(sm, ctl.turnDirection)
             ELSE sm.currentPage)

ProgrammaticTurnEvent == TurnPageForward \/ TurnPageBackward \/ KeyDown

\* the transitions the specification lists, from the state before the step
\* to the state after it
ListedTransition ==
  \/ /\ sm.state = IDLE /\ sm'.state = HOVER_CORNER_RIGHT
     /\ ~NotTurnable(sm, "forward")
  \/ /\ sm.state = IDLE /\ sm'.state = HOVER_CORNER_LEFT
     /\ ~NotTurnable(sm, "backward")
  \/ sm.state \in HoverStates /\ sm'.state = IDLE
  \/ sm.state \in {IDLE} \cup HoverStates /\ sm'.state \in DraggingStates
  \/ sm.state \in DraggingStates /\ sm'.state \in AnimatingStates \cup {SETTLING}
  \/ sm.state \in AnimatingStates \cup {SETTLING} /\ sm'.state = IDLE
  \/ /\ sm.state = IDLE /\ sm'.state \in AnimatingStates
     /\ ProgrammaticTurnEvent

\* C9: under any interleaving of pointer, keyboard and frame events the
\* initial state is IDLE and every change of state is one of the listed
\* transitions.
C9_OnlyListedTransitions ==
  /\ sm.state = IDLE
  /\ [][sm'.state # sm.state => ListedTransition]_vars

\* C9 witness: a drag that started on the left page has been released into
\* ANIMATING_BACKWARD (IDLE or HOVER to DRAGGING to ANIMATING)
C9_Witness ==
  /\ sm.state = ANIMATING_BACKWARD
  /\ sm.dragData # NoDrag
  /\ sm.dragData # ScriptedDragData
  /\ ~ctl.isDragging

\* C10: after any sequence of setPosition, setTarget, release, reset and step
\* calls the position is within [0,1], and a step that would carry the
\* position past 0 or 1 leaves the position on that boundary with velocity 0.
C10_PositionBoundedAndStopped ==
  /\ physics.position \in 0..Unit
  /\ [][/\ physics'.position \in 0..Unit
        /\ call'.op = "step" =>
             LET i == Integrate(physics, call'.arg)
             IN  /\ i.position > Unit =>
                      (physics'.position = Unit /\ physics'.velocity = 0)
                 /\ i.position < 0 =>
                      (physics'.position = 0 /\ physics'.velocity = 0)]_vars

\* C11: released at any position in [0,1] toward 0 or 1 and stepped with a
\* fixed small frame time, the physics object reaches rest (position within the
\* rest threshold of the target and speed under it) after finitely many steps,
\* with the controller's spring settings and with the defaults, and the
\* position never leaves [0,1] on the way.
C11_PhysicsComesToRest ==
  /\ <>IsAtRest(physics)
  /\ [](physics.position \in 0..Unit)

\* C11 witness: steps have carried a released sheet to rest at target 1 with
\* the controller's settings.
C11_Witness ==
  /\ call.op = "step"
  /\ IsAtRest(physics)
  /\ physics.target = Unit
  /\ physics.springK = ControllerSpringK

\* the items as set(key, value) has them after Map.set and before evict()
ItemsBeforeEvict ==
  MapSet(cache.items, call'.arg[1], CachedTexture(call'.arg[1], call'.arg[2]))

\* the values evict() removed, and those it kept
EvictedValues ==
  {ItemsBeforeEvict[i][2] :
     i \in {j \in 1..Len(ItemsBeforeEvict) :
              ItemsBeforeEvict[j][1] \notin ItemKeys(cache'.items)}}

KeptValues ==
  {ItemsBeforeEvict[i][2] :
     i \in {j \in 1..Len(ItemsBeforeEvict) :
              ItemsBeforeEvict[j][1] \in ItemKeys(cache'.items)}}

\* C12: after every set() the cache holds at most limit entries, and the
\* entries the set removed are exactly the overflow with the oldest lastUsed
\* timestamps: none of them was used later than an entry that stayed.
C12_CacheBoundedStrictLru ==
  [][call'.op = "set" =>
       /\ Len(cache'.items) <= cache'.limit
       /\ Cardinality(EvictedValues) =
            Max(0, Len(ItemsBeforeEvict) - cache.limit)
       /\ \A gone \in EvictedValues, kept \in KeptValues :
            (gone.lastUsed # Undefined /\ kept.lastUsed # Undefined)
              => gone.lastUsed <= kept.lastUsed]_vars

\* C13: duplicate concurrent requests for one cache key are coalesced: at any
\* moment at most one fetch is in flight per key, whoever asks for a key
\* that is in flight waits for that fetch
C13_OneFetchPerKey == \A key \in DOMAIN pipe.fetches : pipe.fetches[key] <= 1

\* two suspended calls wait for the same fetch, the only one in flight for its
\* key, in the second document
C13_Witness ==
  \E key \in DOMAIN pipe.fetches, i, j \in 1..Len(pipe.tasks) :
    /\ i < j
    /\ key \in pipe.tasks[i].wait
    /\ key \in pipe.tasks[j].wait
    /\ pipe.fetches[key] = 1
    /\ key[1] = MaxDocuments

\* the spread request a suspended call works for: its own, or the one of the
\* caller that awaits it (0 when it works for none)
SpreadIdOf(t) ==
  IF t.fn \in {"handleRender", "loadCurrentSpread", "loadRightBack", "highRes"}
  THEN t.id
  ELSE IF t.parent # "none" THEN t.parentId
  ELSE 0

\* what the spread slot shows: the textures of the visible sheets and the
\* size given to updateLayout (in single layout the back of the left sheet
\* belongs to loadTurningBackTexture)
SpreadShown(p) ==
  <<p.faces.left, p.faces.right, p.faces.rightBack, p.layoutSize,
    IF p.layout = "double" THEN p.faces.leftBack ELSE NoTexture>>

\* the step is the arrival of the response for key
ResponseArrives(key) ==
  pipe' = [fetchSucceeds(pipe, key) EXCEPT !.controllerCalls = << >>]

\* every call waiting for key works for a spread request that is not the
\* latest one
OnlyStaleSpreadWaits(key) ==
  \A i \in 1..Len(pipe.tasks) :
    key \in pipe.tasks[i].wait =>
      SpreadIdOf(pipe.tasks[i]) # pipe.activeSpreadId

\* C14: spread request ids strictly increase, and a response arriving for
\* spread requests that have all been superseded changes nothing of what the
\* visible sheets show (textures, sizes)
C14_StaleSpreadDiscarded ==
  [][/\ pipe'.spreadRequestId >= pipe.spreadRequestId
     /\ pipe'.activeSpreadId # pipe.activeSpreadId =>
          pipe'.activeSpreadId > pipe.spreadRequestId
     /\ \A key \in DOMAIN pipe.fetches :
          ResponseArrives(key) /\ OnlyStaleSpreadWaits(key) =>
            SpreadShown(pipe') = SpreadShown(pipe)]_vars

\* what the under-spread slot shows
UnderShown(p) ==
  <<p.faces.underLeft, p.faces.underLeftBack,
    p.faces.underRight, p.faces.underRightBack>>

\* a suspended call whose result the under-spread slot has to discard: a
\* loadUnderSpread that is no longer the latest, a preloadDirection started
\* before the latest loadUnderSpread
StaleForUnder(p, t) ==
  \/ t.fn = "loadUnderSpread" /\ t.parent = "none" /\ t.id # p.activeUnderId
  \/ t.fn = "preloadDirection" /\ t.startedUnder < p.activeUnderId

WithoutStaleForUnder(p) ==
  [p EXCEPT !.tasks = SelectSeq(@, LAMBDA t : ~StaleForUnder(p, t))]

\* C15: when a response arrives, the under-pages end up as they would if the
\* superseded under-spread requests and the preloads started before the
\* latest under-spread request had never asked: their results are discarded
C15_StaleUnderDiscarded ==
  [][\A key \in DOMAIN pipe.fetches :
       ResponseArrives(key) =>
         UnderShown(pipe') =
           UnderShown(fetchSucceeds(WithoutStaleForUnder(pipe), key))]_vars

\* the pages whose renders a drag in the direction needs: the back face of
\* the turning sheet and the under-pages, those inside the document
NeededKeys(p, direction) ==
  LET under == getUnderPages(p, direction)
      pages == IF p.layout = "double"
               THEN {getTurningBackPage(p, direction),
                     under.underLeft, under.underRight}
               ELSE {IF direction = "forward" THEN p.currentPageNumber + 1
                     ELSE p.currentPageNumber - 1}
  IN  {PageKey(p, page, "under") : page \in {q \in pages : InRange(p, q)}}

StartsDragging(direction) ==
  /\ sm.state \notin DraggingStates
  /\ sm'.state = IF direction = "forward" THEN DRAGGING_FORWARD
                 ELSE DRAGGING_BACKWARD

\* the step is a pointer-down that canStartDrag refused
RefusedPointerDown(direction) ==
  /\ \E hit \in BookHits :
       /\ PointerDownStartsDrag(TRUE, hit, TRUE)
       /\ HitDirection(hit) = direction
  /\ ~(NeededKeys(pipe, direction) \subseteq pipe.pageRenderCache)
  /\ pipe'.refusals = pipe.refusals + 1
  /\ pipe'.refused = direction

\* C16: a pointer-down starts a drag only when the renders the drag needs
\* are cached; a refused one triggers their load and leaves the state
\* machine, the physics and the sheets as they are; and once the loads have
\* finished a qualifying pointer-down starts the drag
C16_ReadinessGating ==
  /\ [][\A direction \in SMDirections :
          /\ StartsDragging(direction) =>
               NeededKeys(pipe, direction) \subseteq pipe.pageRenderCache
          /\ RefusedPointerDown(direction) =>
               /\ NeededKeys(pipe, direction) \subseteq
                    pipe'.pageRenderCache \cup DOMAIN pipe'.fetches
               /\ UNCHANGED <<sm, physics, sheets>>]_vars
  /\ [](\A hit \in BookHits :
          /\ PointerDownStartsDrag(TRUE, hit, TRUE)
          /\ pipe.refused = HitDirection(hit)
          /\ pipe.fetches = << >>
          /\ pipe.failures = 0
          => PointerDownStartsDrag(TRUE, hit,
                                   canStartDrag(pipe, HitDirection(hit))))

\* a drag forward has started at a pointer-down that came after a refused one
\* and after the loads the refusal triggered
C16_Witness ==
  /\ sm.state = DRAGGING_FORWARD
  /\ ctl.isDragging
  /\ pipe.refused = "forward"
  /\ NeededKeys(pipe, "forward") # {}
  /\ NeededKeys(pipe, "forward") \subseteq pipe.pageRenderCache

C18_FailureStaysInPipeline ==
  /\ [][pipe'.failures > pipe.failures =>
          /\ UNCHANGED <<sm, physics, sheets, ctl>>
          /\ pipe'.faces = pipe.faces
          /\ pipe'.layoutSize = pipe.layoutSize]_vars
  /\ [](TurnInFlight => (FrameRequested /\ FrameAdvances))
  /\ (pipe.failures > 0 /\ TurnInFlight) ~> (sm.state = IDLE)

\* a forward turn of the first spread is in flight and a render its turn
\* start asked for is neither cached nor in flight any more: its fetch failed
\* during the turn
C18_Witness ==
  /\ sm.state = ANIMATING_FORWARD
  /\ pipe.layout = "double"
  /\ pipe.spreadRequestId = 1
  /\ pipe.failures > 0
  /\ \E key \in NeededKeys(pipe, "forward") :
       /\ key \notin pipe.pageRenderCache
       /\ key \notin DOMAIN pipe.fetches

\* the three rejected inputs: no page under the pointer, a point outside the
\* corner and edge zones, a zone on the side that cannot turn
RejectedHit(hit) ==
  \/ hit.page = Null
  \/ HitOuterU(sheets, hit) <= 100 - EdgeHitArea
  \/ HitSide(sheets, hit) = "right" /\ ~CanTurnForward(sm)
  \/ HitSide(sheets, hit) = "left" /\ ~CanTurnBackward(sm)

\* C19: a pointer-down that hits no page, lands outside every corner and edge
\* zone or lands on the side that cannot turn changes nothing: no state
\* transition, no drag data, the physics and the sheets as they were, and
\* none of the page's callbacks run (no load is started, no under-page set)
C19_RejectedInputIgnored ==
  [][\A hit \in BookHits, x \in DownXs, y \in PointerYs :
       RejectedHit(hit) /\ BookPointerDownAt(hit, x, y) =>
         UNCHANGED <<sm, physics, sheets, ctl, pipe>>]_vars

\* the book rests on its last spread with pages before it: the press on the
\* right page's outer corner is on the side that cannot turn, the press in
\* the middle of the page outside every zone
C19_Witness ==
  /\ sm.state = IDLE
  /\ sm.totalPages = MaxDocPages
  /\ ~CanTurnForward(sm)
  /\ CanTurnBackward(sm)
  /\ \E hit \in BookHits : hit.page # Null /\ hit.u = 95 /\ RejectedHit(hit)
  /\ \E hit \in BookHits : hit.page # Null /\ hit.u = 50 /\ RejectedHit(hit)

DerivedFaces ==
  {"leftBack", "right", "rightBack",
   "underLeft", "underLeftBack", "underRight", "underRightBack"}

\* a call of handleRender, or of its high resolution pass, that waits for
\* key as the left page of its spread
WaitsForLeftPage(t, key) ==
  /\ \/ t.fn = "handleRender" /\ t.pc = "left"
     \/ t.fn = "highRes"
  /\ t.left = key
  /\ t.leftPage = key[2]
  /\ key \in t.wait

SpreadAnchor(p) ==
  IF p.layout = "double" THEN p.currentSpreadLeft ELSE p.currentPageNumber

\* key is a render of the current document within PageCacheWindow pages of
\* the anchor
InCacheWindow(p, key) ==
  /\ key[1] = p.documentId
  /\ key[2] >= SpreadAnchor(p) - PageCacheWindow
  /\ key[2] <= SpreadAnchor(p) + PageCacheWindow

\* no call of handleRender or loadCurrentSpread is suspended before its call
\* of enforcePageCacheWindow
SpreadChangeFinished(p) ==
  /\ p.spreadRequestId > 0
  /\ \A i \in 1..Len(p.tasks) :
       /\ p.tasks[i].fn \notin {"handleRender", "loadCurrentSpread"}
       /\ p.tasks[i].parent = NoParent[1]

TurnInFlightDirection ==
  IF sm.state = ANIMATING_FORWARD THEN "forward"
  ELSE IF sm.state = ANIMATING_BACKWARD THEN "backward"
  ELSE IF ctl.turnDirection = "forward" THEN "forward" ELSE "backward"

\* this step is the frame in which a turn in flight ends with the sheet
\* turned over
TurnCompletes ==
  /\ TurnInFlight
  /\ sm'.state = IDLE
  /\ physics'.position > Half

C23_SheetInSyncEveryFrame ==
  [][((Frame \/ RenderUpdate) /\ ctl.turningPage # Null) =>
       sheets'[ctl.turningPage].progress = physics'.position]_vars

\* C23 as the code has it: at the end of every animation frame and of every
\* update of the render loop, the turning sheet, if the frame has not ended
\* the turn, has the progress the physics position has after that frame's
\* step (the step comes first, the sheet is reshaped to its result); the
\* frame that ends the turn puts the sheet back to progress 0
C23_SheetFollowsPhysics ==
  [][(Frame \/ RenderUpdate) =>
       /\ ctl'.turningPage # Null =>
            sheets'[ctl'.turningPage].progress = physics'.position
       /\ (ctl.turningPage # Null /\ ctl'.turningPage = Null) =>
            /\ sm'.state = IDLE
            /\ sheets'[ctl.turningPage].progress = 0]_vars

\* an animation is under way: frames have moved the physics off its start and
\* the turning sheet is at that position
C23_Witness ==
  /\ sm.state \in AnimatingStates
  /\ ctl.animationFrame
  /\ ctl.turningPage # Null
  /\ physics.position > 0
  /\ physics.position < Unit
  /\ physics.velocity # 0
  /\ sheets[ctl.turningPage].progress = physics.position

\* C24: every step that starts a drag leaves the physics at position 0,
\* velocity 0 and target 0
C24_DragStartResetsPhysics ==
  [][(sm.state \notin DraggingStates /\ sm'.state \in DraggingStates) =>
       /\ physics'.position = 0
       /\ physics'.velocity = 0
       /\ physics'.target = 0]_vars

\* C25: setPosition(p) leaves the position at p clamped to [0,1], the
\* velocity at 0 and the target as it was; release(target, initialVelocity)
\* leaves the target and the velocity at its arguments and the position as it
\* was; neither touches the spring configuration
C25_SetPositionAndRelease ==
  /\ [][call'.op = "setPosition" =>
          /\ physics'.position =
               (IF call'.arg < 0 THEN 0
                ELSE IF call'.arg > Unit THEN Unit ELSE call'.arg)
          /\ physics'.velocity = 0
          /\ physics'.target = physics.target
          /\ physics'.springK = physics.springK
          /\ physics'.damping = physics.damping]_vars
  /\ [][\A target \in PhTargets, initialVelocity \in PhVelocities :
          (/\ call'.op = "release"
           /\ physics' = Release(physics, target, initialVelocity)) =>
            /\ physics'.target = target
            /\ physics'.velocity = initialVelocity
            /\ physics'.position = physics.position
            /\ physics'.springK = physics.springK
            /\ physics'.damping = physics.damping]_vars

\* a release toward 1 with a velocity has left the position where a
\* setPosition or a step put it, between 0 and the target
C25_Witness ==
  /\ call.op = "release"
  /\ call.arg = Unit
  /\ physics.target = Unit
  /\ physics.velocity = ScriptedVelocity
  /\ physics.position > 0
  /\ physics.position < Unit

\* C26: a step with a frame time above 33 ms leaves the physics exactly as a
\* step of 33 ms from the same state would
C26_OversizedStepIsClamped ==
  [][(call'.op = "step" /\ call'.arg > MaxStepMs) =>
       /\ physics'.position = Step(physics, MaxStepMs).position
       /\ physics'.velocity = Step(physics, MaxStepMs).velocity]_vars

\* a step of one second has been taken from a released position and has
\* left the physics moving inside (0,1)
C26_Witness ==
  /\ call.op = "step"
  /\ call.arg = 1000
  /\ physics.velocity # 0
  /\ physics.position > 0
  /\ physics.position < Unit

\* the slope of the curve angle over the sheet angle in the band of a:
\* a left turn stays flat, follows, then catches up; the opposite turn runs
\* ahead, follows, then stays at 180
BandSlope(isLeftTurn, a) ==
  IF a < 45 THEN (IF isLeftTurn THEN 0 ELSE 2)
  ELSE IF a < 135 THEN 1
  ELSE (IF isLeftTurn THEN 2 ELSE 0)

\* C29: getCurveAngle returns a value in [0,180] that never falls as the sheet
\* angle grows; with no minimum clamp it is 0 at 0 degrees, 180 at 180 degrees
\* and changes at a fixed rate within each of the bands 0-45, 45-135 and
\* 135-180; and the value for one direction at angle a is 180 minus the value
\* for the other direction at 180 - a
C29_CurveAngleBandsAndMirror ==
  call.op = "getCurveAngle" =>
    LET isLeftTurn == call.arg[1]
        a == call.arg[2]
        minClampDeg == call.arg[3]
    IN  /\ call.ret >= 0
        /\ call.ret <= 180
        /\ call.ret <= getCurveAngle(isLeftTurn, a + 1, minClampDeg)
        /\ call.ret = 180 - getCurveAngle(~isLeftTurn, 180 - a, minClampDeg)
        /\ (minClampDeg = 0 /\ a = 0) => call.ret = 0
        /\ (minClampDeg = 0 /\ a = 180) => call.ret = 180
        /\ (minClampDeg = 0 /\ a >= 0 /\ a < 180) =>
             getCurveAngle(isLeftTurn, a + 1, 0) - call.ret =
               BandSlope(isLeftTurn, a)

\* the middle of the turn: a left turn has curved to 45 degrees where the
\* opposite turn is at 135
C29_Witness ==
  /\ call.op = "getCurveAngle"
  /\ call.arg = <<TRUE, 90, 0>>
  /\ call.ret = 45
  /\ getCurveAngle(FALSE, 90, 0) = 135

\* C27: the u coordinates updateSheetGeometry derives from the accumulated
\* chord length of the front curve start at 0 in the first column, end at 1
\* in the last and grow from every column to the next: no segment has a zero
\* or negative arc delta
C27_ArcFractionStrictlyIncreasing ==
  call.op = "updateSheetGeometry" =>
    LET uArc == call.ret.uArc
        E == Len(uArc)
    IN  /\ E = call.arg.segments + 1
        /\ uArc[1] = 0
        /\ uArc[E] = GeoUnit
        /\ \A r \in 1..(E - 1) : uArc[r] < uArc[r + 1]

\* the sheet of the other side of the spread, deformed with the same
\* arguments otherwise
OtherSide(params) == [params EXCEPT !.pageSide = -params.pageSide]

\* the back face of every column has the u of the back curve's arc fraction,
\* the same on a left-side and on a right-side sheet
BackFaceIsBackArc ==
  /\ call.ret.uBack = call.ret.uBackArc
  /\ call.ret.uBack = updateSheetGeometry(OtherSide(call.arg)).uBack
  /\ call.ret.uBackArc[1] = 0
  /\ call.ret.uBackArc[Len(call.ret.uBackArc)] = GeoUnit

TurnStarts(direction) ==
  /\ sm.state \notin BusyStates
  /\ sm'.state = (IF direction = "forward"
                  THEN DRAGGING_FORWARD ELSE DRAGGING_BACKWARD)
     \/ sm'.state = (IF direction = "forward"
                     THEN ANIMATING_FORWARD ELSE ANIMATING_BACKWARD)

\* the back face of the sheet that turns in direction: the right sheet turns
\* forward, the left sheet backward
TurningBackFace(p, direction) ==
  IF direction = "forward" THEN p.faces.rightBack ELSE p.faces.leftBack

\* C30: when a turn starts in double layout on a spread of the document, the
\* back face of the turning sheet shows the page the turn reveals,
\* spreadLeft + 2 forward and spreadLeft - 1 backward
C30_TurningBackFaceShowsRevealedPage ==
  [][\A direction \in SMDirections :
       (/\ TurnStarts(direction)
        /\ pipe.layout = "double"
        /\ InRange(pipe, pipe.currentSpreadLeft)
        /\ InRange(pipe, getTurningBackPage(pipe, direction))) =>
         /\ TurningBackFace(pipe', direction) # NoTexture
         /\ TurningBackFace(pipe', direction)[2] =
              getTurningBackPage(pipe', direction)]_vars

\* C31: a released drag hands its speed to the physics (a drag that moves
\* at release leaves a non-zero initial velocity), and an accepted
\* programmatic turn is released with the fixed scripted velocity
C31_ReleaseCarriesDragVelocity ==
  [][/\ (PointerUp /\ HeldDrag /\ ctl.dragVelocity # 0) =>
          physics'.velocity # 0
     /\ \A direction \in {"forward", "backward"} :
          (ProgrammaticTurn(direction) /\ TurnPageAccepted(direction)) =>
            physics'.velocity = ScriptedVelocity]_vars

\* C32: whenever the state is ANIMATING_FORWARD, ANIMATING_BACKWARD or
\* SETTLING an animation frame is requested (so the turn goes on to IDLE),
\* also after a page-changed callback has started the next turn from inside
\* the frame that finished the previous one
C32_FrameScheduledWhileAnimating ==
  sm.state \in AnimatingStates \cup {SETTLING} => ctl.animationFrame

\* C33: the current page index is at least 0 and at most
\* max(0, totalPages - 1) in every state the controller reaches
C33_CurrentPageInRange ==
  /\ sm.currentPage >= 0
  /\ sm.currentPage <= Max(0, sm.totalPages - 1)

\* C34: while the state is DRAGGING_*, ANIMATING_* or SETTLING a turning
\* sheet and a turn direction are set and that sheet is in its animating
\* render mode; in IDLE and HOVER_CORNER_* there is no turning sheet and no
\* direction, no sheet is in animating mode and both sheets have progress 0
C34_TurningSheetExactlyWhileBusy ==
  IF sm.state \in BusyStates
  THEN /\ ctl.turningPage \in Sheets
       /\ ctl.turnDirection \in {"forward", "backward"}
       /\ sheets[ctl.turningPage].isAnimating
  ELSE /\ ctl.turningPage = Null
       /\ ctl.turnDirection = Null
       /\ \A s \in Sheets : ~sheets[s].isAnimating /\ sheets[s].progress = 0

\* C34 witness: a turn has come to rest turned over and the state is IDLE
\* again: the listener has ended the animation of the sheet that turned
C34_Witness ==
  /\ sm.state = IDLE
  /\ physics.target = Unit
  /\ physics.position > Half
  /\ ctl.turningPage = Null
  /\ \A s \in Sheets : ~sheets[s].isAnimating /\ sheets[s].progress = 0

\* C35: a pointer-down on a visible sheet that starts a drag makes that very
\* sheet the turning sheet, in double and in single layout, and the turning
\* sheet is a visible one
C35_DraggedSheetIsPressedSheet ==
  [][\A hit \in VisibleHits, x \in DownXs, y \in PointerYs :
       (/\ hit.page # Null
        /\ sm.state \notin DraggingStates
        /\ HandlePointerDown(TRUE, hit, x, y, TRUE)
        /\ sm'.state \in DraggingStates) =>
         /\ ctl'.turningPage = hit.page
         /\ MeshVisible(sheets', ctl'.turningPage)]_vars

\* the textures bound to a face of a sheet
BoundTextures(p) == {p.faces[f] : f \in DOMAIN p.faces} \ {NoTexture}

\* C36: with a page of the document shown, a step that leaves the document
\* in place (LRU eviction, cache-window pruning; an upload clears the whole
\* cache) removes no render from the cache whose texture is bound to a sheet
\* face after the step
C36_BoundTextureNotDisposed ==
  [][(/\ pipe'.documentId = pipe.documentId
      /\ InRange(pipe', pipe'.currentPageNumber)) =>
       (pipe.pageRenderCache \ pipe'.pageRenderCache) \cap BoundTextures(pipe')
         = {}]_vars

\* C37: when the response for a request of an earlier document arrives after
\* an upload, its render is not in the cache and on no sheet face after the
\* step, and every in-flight entry of the current document is still there
C37_StaleDocumentFetchDiscarded ==
  [][\A key \in DOMAIN pipe.fetches :
       (key[1] # pipe.documentId /\ ResponseArrives(key)) =>
         /\ key \notin pipe'.pageRenderCache
         /\ key \notin BoundTextures(pipe')
         /\ {k \in pipe.pageRenderPromises : k[1] = pipe.documentId}
              \subseteq pipe'.pageRenderPromises]_vars

\* C38: when a response arrives that only superseded spread requests wait
\* for, the controller keeps its current page and its total (no
\* setTotalPages or setCurrentPage from a stale request)
C38_StaleRenderLeavesController ==
  [][\A key \in DOMAIN pipe.fetches :
       (ResponseArrives(key) /\ OnlyStaleSpreadWaits(key)) =>
         /\ sm'.currentPage = sm.currentPage
         /\ sm'.totalPages = sm.totalPages]_vars

\* C39 as stated: turnPageForward / turnPageBackward called in a turnable
\* direction while no drag, animation or settle is in progress (IDLE or
\* HOVER_CORNER_*) returns true and enters ANIMATING_* of that direction
C39_TurnSucceedsUnlessBusy ==
  [][\A direction \in SMDirections :
       (/\ call'.op = TurnMethod(direction)
        /\ ~NotTurnable(sm, direction)
        /\ sm.state \notin BusyStates) =>
         /\ call'.ret = "true"
         /\ sm'.state = AnimatingState(direction)]_vars

\* C39: turnPageForward / turnPageBackward called in a turnable direction
\* succeeds from IDLE only: there it returns true, enters ANIMATING_* of the
\* direction and releases the physics towards 1 with the scripted velocity
\* and a frame requested; in every other state, HOVER_CORNER_* included, it
\* returns false and changes nothing
C39_TurnSucceedsFromIdleOnly ==
  [][\A direction \in SMDirections :
       (call'.op = TurnMethod(direction) /\ ~NotTurnable(sm, direction)) =>
         IF sm.state = IDLE
         THEN /\ call'.ret = "true"
              /\ sm'.state = AnimatingState(direction)
              /\ physics'.position = 0
              /\ physics'.target = Unit
              /\ physics'.velocity = ScriptedVelocity
              /\ ctl'.animationFrame
         ELSE /\ call'.ret = "false"
              /\ UNCHANGED <<sm, physics, sheets, ctl>>]_vars

\* C39 witness: turnPageForward() has been refused while the pointer hovers
\* over the right corner of a page that can be turned forward
C39_Witness ==
  /\ call.op = "turnPageForward"
  /\ call.ret = "false"
  /\ sm.state = HOVER_CORNER_RIGHT
  /\ CanTurnForward(sm)

\* the requests whose rasterizePage is executing
Rasterizing(l) ==
  {r \in 1..MaxRequests : l.requests[r] \in {"rasterizing", "timedOut"}}

\* C40: at no time do more than the configured maximum of rasterizations
\* execute, a rasterization whose request has timed out included
C40_AtMostMaxRasterizing ==
  Cardinality(Rasterizing(limiter)) <= limiter.maxConcurrent


====
